---------------------------- MODULE Spec2Model ----------------------------
(***************************************************************************)
(* A model of nova/api/ec2/cloud.py: the EC2 identifier codec              *)
(* (ec2_id_to_id / id_to_ec2_id), the security-group rule canonicalizer    *)
(* (_revoke_rule_args_to_dict), the handlers of CloudController for        *)
(* security groups, key pairs, instances, volumes and images, and of       *)
(* nova/flags.py: FlagValues.                                              *)
(*                                                                         *)
(* Python values are tagged records [t, v]: t is "none", "int" or "str";   *)
(* a str carries the sequence of its characters, so that int(), upper()    *)
(* and slicing are computed and not assumed.                               *)
(***************************************************************************)
EXTENDS Integers, Sequences, FiniteSets, TLC

VARIABLES
    \* ---- identifier codec (module level functions)
    ec_pc,               \* "idle" | "loop": position inside id_to_ec2_id
    ec_arg,              \* argument of the id_to_ec2_id call in progress
    instance_id,         \* the loop variable of id_to_ec2_id
    digits,              \* the list id_to_ec2_id appends to
    ec_hist,             \* completed codec calls of the chain: <<[fn, arg, ret]>>
    \* ---- rule canonicalizer called on its own
    cn_args,             \* keyword arguments given to _revoke_rule_args_to_dict
    cn_out,              \* its outcome: [st |-> "new"] before the call
    \* ---- datastore and handlers
    groups,              \* security_groups table: set of [id, project_id, name]
    rules,               \* security_group_rules table, in creation order
    next_rule_id,        \* the autoincrement key of security_group_rules
    inflight,            \* per worker: the request it is serving, at a db call
    resp,                \* outcome of the request that completed last
    casts,               \* refreshes triggered by the step that ran last
    \* ---- key pairs
    key_pairs,           \* key_pairs table, in creation order
    keygen_calls,        \* number of calls of crypto.generate_key_pair so far
    kp_inflight,         \* per worker: the _gen_key call it is in, at a slow call
    kp_resp,             \* outcome of the key-pair request that completed last
    \* ---- instances
    instances,           \* the compute manager's instance table, in creation order
    next_instance_id,    \* the autoincrement key of the instance table
    inst_resp,           \* outcome of the instance request that completed last
    \* ---- refresh fan-out
    security_group,      \* the group handed to _trigger_refresh_security_group
    rpc_casts,           \* messages given to rpc.cast, in sending order
    \* ---- FlagValues (nova/flags.py)
    flag_dict,           \* the registered flags: name -> [value, default]
    dirty,               \* __dict__['__dirty']: list of flag names
    is_dirty,            \* __dict__['__is_dirty']: <<>> while absent, else <<list>>
    was_already_parsed,  \* __dict__['__was_already_parsed']
    stored_argv,         \* __dict__['__stored_argv']
    flags_resp,          \* outcome of the FlagValues call that completed last
    \* ---- update_instance / update_volume
    upd_resp,            \* outcome of the update request that completed last
    \* ---- volumes
    volumes,             \* the volume manager's table, in creation order
    vol_resp,            \* outcome of the volume request that completed last
    \* ---- images
    images,              \* the image service: image id -> isPublic
    img_resp             \* outcome of the image request that completed last

codecVars == <<ec_pc, ec_arg, instance_id, digits, ec_hist>>
canonVars == <<cn_args, cn_out>>
sgVars == <<groups, rules, next_rule_id, inflight, resp, casts>>
kpVars == <<key_pairs, keygen_calls, kp_inflight, kp_resp>>
instVars == <<instances, next_instance_id, inst_resp>>
refreshVars == <<security_group, rpc_casts>>
flagsVars == <<flag_dict, dirty, is_dirty, was_already_parsed, stored_argv,
               flags_resp>>
updVars == <<upd_resp>>
volVars == <<volumes, vol_resp>>
imgVars == <<images, img_resp>>
dbVars == <<groups, rules, next_rule_id>>
nonCodecVars == <<cn_args, cn_out, groups, rules, next_rule_id, inflight,
                  resp, casts, key_pairs, keygen_calls, kp_inflight, kp_resp,
                  instances, next_instance_id, inst_resp, security_group,
                  rpc_casts, flag_dict, dirty, is_dirty, was_already_parsed,
                  stored_argv, flags_resp, upd_resp, volumes, vol_resp,
                  images, img_resp>>
nonCanonVars == <<ec_pc, ec_arg, instance_id, digits, ec_hist, groups, rules,
                  next_rule_id, inflight, resp, casts, key_pairs,
                  keygen_calls, kp_inflight, kp_resp, instances,
                  next_instance_id, inst_resp, security_group, rpc_casts,
                  flag_dict, dirty, is_dirty, was_already_parsed, stored_argv,
                  flags_resp, upd_resp, volumes, vol_resp, images, img_resp>>
nonSGVars == <<ec_pc, ec_arg, instance_id, digits, ec_hist, cn_args,
               cn_out, key_pairs, keygen_calls, kp_inflight, kp_resp,
               instances, next_instance_id, inst_resp, security_group,
               rpc_casts, flag_dict, dirty, is_dirty, was_already_parsed,
               stored_argv, flags_resp, upd_resp, volumes, vol_resp,
               images, img_resp>>
nonKPVars == <<ec_pc, ec_arg, instance_id, digits, ec_hist, cn_args,
               cn_out, groups, rules, next_rule_id, inflight, resp, casts,
               instances, next_instance_id, inst_resp, security_group,
               rpc_casts, flag_dict, dirty, is_dirty, was_already_parsed,
               stored_argv, flags_resp, upd_resp, volumes, vol_resp,
               images, img_resp>>
nonInstVars == <<ec_pc, ec_arg, instance_id, digits, ec_hist, cn_args,
                 cn_out, groups, rules, next_rule_id, inflight, resp, casts,
                 key_pairs, keygen_calls, kp_inflight, kp_resp,
                 security_group, rpc_casts, flag_dict, dirty, is_dirty,
                 was_already_parsed, stored_argv, flags_resp, upd_resp,
                 volumes, vol_resp, images, img_resp>>
nonRefreshVars == <<ec_pc, ec_arg, instance_id, digits, ec_hist, cn_args,
                    cn_out, groups, rules, next_rule_id, inflight, resp, casts,
                    key_pairs, keygen_calls, kp_inflight, kp_resp, instances,
                    next_instance_id, inst_resp, flag_dict, dirty, is_dirty,
                    was_already_parsed, stored_argv, flags_resp, upd_resp,
                    volumes, vol_resp, images, img_resp>>
nonFlagsVars == <<ec_pc, ec_arg, instance_id, digits, ec_hist, cn_args,
                  cn_out, groups, rules, next_rule_id, inflight, resp, casts,
                  key_pairs, keygen_calls, kp_inflight, kp_resp, instances,
                  next_instance_id, inst_resp, security_group, rpc_casts,
                  upd_resp, volumes, vol_resp, images, img_resp>>
nonUpdVars == <<ec_pc, ec_arg, instance_id, digits, ec_hist, cn_args,
                cn_out, groups, rules, next_rule_id, inflight, resp, casts,
                key_pairs, keygen_calls, kp_inflight, kp_resp, instances,
                next_instance_id, inst_resp, security_group, rpc_casts,
                flag_dict, dirty, is_dirty, was_already_parsed, stored_argv,
                flags_resp, volumes, vol_resp, images, img_resp>>
nonVolVars == <<ec_pc, ec_arg, instance_id, digits, ec_hist, cn_args,
                cn_out, groups, rules, next_rule_id, inflight, resp, casts,
                key_pairs, keygen_calls, kp_inflight, kp_resp, instances,
                next_instance_id, inst_resp, security_group, rpc_casts,
                flag_dict, dirty, is_dirty, was_already_parsed, stored_argv,
                flags_resp, upd_resp, images, img_resp>>
nonImgVars == <<ec_pc, ec_arg, instance_id, digits, ec_hist, cn_args,
                cn_out, groups, rules, next_rule_id, inflight, resp, casts,
                key_pairs, keygen_calls, kp_inflight, kp_resp, instances,
                next_instance_id, inst_resp, security_group, rpc_casts,
                flag_dict, dirty, is_dirty, was_already_parsed, stored_argv,
                flags_resp, upd_resp, volumes, vol_resp>>
vars == <<ec_pc, ec_arg, instance_id, digits, ec_hist, cn_args,
          cn_out, groups, rules, next_rule_id, inflight, resp, casts,
          key_pairs, keygen_calls, kp_inflight, kp_resp, instances,
          next_instance_id, inst_resp, security_group, rpc_casts,
          flag_dict, dirty, is_dirty, was_already_parsed, stored_argv,
          flags_resp, upd_resp, volumes, vol_resp, images, img_resp>>

-----------------------------------------------------------------------------
(* Python values *)

PyNone   == [t |-> "none", v |-> 0]
PyI(n)   == [t |-> "int", v |-> n]
PyS(s)   == [t |-> "str", v |-> s]
Returned(x) == [st |-> "returned", val |-> x]
Raised(e)   == [st |-> "raised", val |-> e]

\* Python's ==: values of different types are unequal, None equals only None
PyEq(a, b) == a.t = b.t /\ a.v = b.v

\* Python's truth value: None, 0 and "" are false
Truthy(x) ==
    CASE x.t = "none" -> FALSE
      [] x.t = "int"  -> x.v # 0
      [] x.t = "str"  -> x.v # <<>>

-----------------------------------------------------------------------------
(* Characters and int(string, base) *)

Digits36 == <<"0","1","2","3","4","5","6","7","8","9","a","b","c","d","e",
              "f","g","h","i","j","k","l","m","n","o","p","q","r","s","t",
              "u","v","w","x","y","z">>
UpperAZ  == <<"A","B","C","D","E","F","G","H","I","J","K","L","M","N","O",
              "P","Q","R","S","T","U","V","W","X","Y","Z">>

IsUpperChar(c) == \E i \in 1..Len(UpperAZ) : UpperAZ[i] = c
IsLowerChar(c) == \E i \in 11..Len(Digits36) : Digits36[i] = c
LowerChar(c) ==
    IF IsUpperChar(c)
    THEN Digits36[10 + (CHOOSE i \in 1..Len(UpperAZ) : UpperAZ[i] = c)]
    ELSE c
UpperChar(c) ==
    IF IsLowerChar(c)
    THEN UpperAZ[(CHOOSE i \in 11..Len(Digits36) : Digits36[i] = c) - 10]
    ELSE c
StrUpper(s) == [i \in 1..Len(s) |-> UpperChar(s[i])]

\* value of c as a digit (letters in either case), -1 when it is none
DigitVal(c) ==
    IF \E i \in 1..Len(Digits36) : Digits36[i] = LowerChar(c)
    THEN (CHOOSE i \in 1..Len(Digits36) : Digits36[i] = LowerChar(c)) - 1
    ELSE -1

IsSpace(c) == c = " "

RECURSIVE LStrip(_)
LStrip(s) == IF s # <<>> /\ IsSpace(s[1]) THEN LStrip(Tail(s)) ELSE s
RECURSIVE RStrip(_)
RStrip(s) ==
    IF s # <<>> /\ IsSpace(s[Len(s)]) THEN RStrip(SubSeq(s, 1, Len(s) - 1))
    ELSE s

RECURSIVE DigitsValue(_, _)
DigitsValue(s, base) ==
    IF s = <<>> THEN 0
    ELSE DigitsValue(SubSeq(s, 1, Len(s) - 1), base) * base + DigitVal(s[Len(s)])

\* int(s, base) of Python 2 for a base without a literal prefix (10, 36):
\* white space, an optional sign, white space, one or more digits of the
\* base in either letter case, white space; anything else is a ValueError.
PyIntStr(s, base) ==
    LET body   == RStrip(LStrip(s))
        signed == body # <<>> /\ body[1] \in {"+", "-"}
        mag    == IF signed THEN LStrip(Tail(body)) ELSE body
        ok     == /\ mag # <<>>
                  /\ \A i \in 1..Len(mag) :
                        DigitVal(mag[i]) >= 0 /\ DigitVal(mag[i]) < base
        val    == DigitsValue(mag, base)
    IN  IF ~ok THEN Raised("ValueError")
        ELSE Returned(IF signed /\ body[1] = "-" THEN 0 - val ELSE val)

-----------------------------------------------------------------------------
(* Identifier codec *)

MaxId     == 1300   \* largest internal id handed to id_to_ec2_id directly
MaxNegId  == 2      \* most negative id handed to it
MaxStrLen == 4      \* longest string handed to ec2_id_to_id directly
MaxDigits == 6      \* iterations of the encoder's loop that are followed
MaxCalls  == 2      \* codec calls chained on one value

IdInputs  == (0 - MaxNegId)..MaxId
Alphabet  == {"i", "-", "0", "1", "z", "A", " ", "+"}
StrInputs == UNION {[1..n -> Alphabet] : n \in 0..MaxStrLen}

RECURSIVE Reversed(_)
Reversed(s) == IF s = <<>> THEN <<>> ELSE Reversed(Tail(s)) \o <<s[1]>>

\* ec2_id_to_id: int(ec2_id[2:], 36)
Ec2IdToId(ec2_id) == PyIntStr(SubSeq(ec2_id, 3, Len(ec2_id)), 36)

\* ''.join(digits): the digits in the order the loop produced them
IdToEc2IdResult_Unreversed(ds) == <<"i", "-">> \o ds

\* "i-%s" % ''.join(reversed(digits))
IdToEc2IdResult(ds) == <<"i", "-">> \o Reversed(ds)

LastRet == ec_hist[Len(ec_hist)].ret

\* entry of id_to_ec2_id(n)
IdToEc2IdEnter(n) ==
    /\ ec_pc' = "loop"
    /\ ec_arg' = n
    /\ instance_id' = n
    /\ digits' = <<>>
    /\ UNCHANGED ec_hist
    /\ UNCHANGED nonCodecVars

\* id_to_ec2_id is called on an internal id
IdToEc2IdCall ==
    /\ ec_pc = "idle"
    /\ ec_hist = <<>>
    /\ \E n \in IdInputs : IdToEc2IdEnter(n)

\* id_to_ec2_id is called on the id the last call returned
IdToEc2IdOfResult ==
    /\ ec_pc = "idle"
    /\ ec_hist # <<>>
    /\ Len(ec_hist) < MaxCalls
    /\ LastRet.st = "returned"
    /\ LastRet.val.t = "int"
    /\ IdToEc2IdEnter(LastRet.val.v)

\* one iteration of: while instance_id != 0
IdToEc2IdLoop ==
    /\ ec_pc = "loop"
    /\ instance_id # 0
    /\ Len(digits) < MaxDigits
    /\ instance_id' = instance_id \div 36
    /\ digits' = Append(digits, Digits36[(instance_id % 36) + 1])
    /\ UNCHANGED <<ec_pc, ec_arg, ec_hist>>
    /\ UNCHANGED nonCodecVars

\* the loop's exit and the return
IdToEc2IdReturn ==
    /\ ec_pc = "loop"
    /\ instance_id = 0
    /\ ec_hist' = Append(ec_hist,
                    [fn |-> "id_to_ec2_id", arg |-> PyI(ec_arg),
                     ret |-> Returned(PyS(IdToEc2IdResult(digits)))])
    /\ ec_pc' = "idle"
    /\ UNCHANGED <<ec_arg, instance_id, digits>>
    /\ UNCHANGED nonCodecVars

\* the whole of ec2_id_to_id(s)
Ec2IdToIdRun(s) ==
    /\ ec_hist' = Append(ec_hist,
                    [fn |-> "ec2_id_to_id", arg |-> PyS(s),
                     ret |-> LET r == Ec2IdToId(s)
                             IN  IF r.st = "returned"
                                 THEN Returned(PyI(r.val)) ELSE r])
    /\ UNCHANGED <<ec_pc, ec_arg, instance_id, digits>>
    /\ UNCHANGED nonCodecVars

\* ec2_id_to_id is called on an external string
Ec2IdToIdCall ==
    /\ ec_pc = "idle"
    /\ ec_hist = <<>>
    /\ \E s \in StrInputs : Ec2IdToIdRun(s)

\* ec2_id_to_id is called on the string the last call returned
Ec2IdToIdOfResult ==
    /\ ec_pc = "idle"
    /\ ec_hist # <<>>
    /\ Len(ec_hist) < MaxCalls
    /\ LastRet.st = "returned"
    /\ LastRet.val.t = "str"
    /\ Ec2IdToIdRun(LastRet.val.v)

-----------------------------------------------------------------------------
(* Claims on the identifier codec, checked under SpecCodec *)

\* ^i-[0-9a-z]+$
MatchesEc2Id(s) ==
    /\ Len(s) >= 3
    /\ s[1] = "i"
    /\ s[2] = "-"
    /\ \A k \in 3..Len(s) :
          \E d \in 1..Len(Digits36) : Digits36[d] = s[k]

\* the base-36 numeral of n >= 0, most significant digit first, no padding
RECURSIVE Base36Numeral(_)
Base36Numeral(n) ==
    IF n < 36 THEN <<Digits36[n + 1]>>
    ELSE Base36Numeral(n \div 36) \o <<Digits36[(n % 36) + 1]>>

HistPairs == {k \in 1..Len(ec_hist) : k < Len(ec_hist)}

\* C1: for every n >= 0, 0 included, ec2_id_to_id(id_to_ec2_id(n)) returns n
C1_DecodeOfEncode ==
    \A k \in HistPairs :
        (/\ ec_hist[k].fn = "id_to_ec2_id"
         /\ ec_hist[k].arg.v >= 0
         /\ ec_hist[k + 1].fn = "ec2_id_to_id")
        => ec_hist[k + 1].ret = Returned(ec_hist[k].arg)

\* C2: ec2_id_to_id fails on every string that does not match ^i-[0-9a-z]+$
C2_DecodeRejectsMalformed ==
    \A k \in 1..Len(ec_hist) :
        (ec_hist[k].fn = "ec2_id_to_id" /\ ~MatchesEc2Id(ec_hist[k].arg.v))
        => ec_hist[k].ret.st = "raised"

\* C3 as stated: for every x matching ^i-[0-9a-z]+$, leading zeros included,
\* id_to_ec2_id(ec2_id_to_id(x)) = x
C3_EncodeOfDecode ==
    \A k \in HistPairs :
        (/\ ec_hist[k].fn = "ec2_id_to_id"
         /\ MatchesEc2Id(ec_hist[k].arg.v)
         /\ ec_hist[k + 1].fn = "id_to_ec2_id")
        => ec_hist[k + 1].ret = Returned(ec_hist[k].arg)

\* C3 as amended: for every x matching ^i-[1-9a-z][0-9a-z]*$ (no leading
\* zero digit) ec2_id_to_id(x) returns a non-negative integer and
\* id_to_ec2_id of it returns x
C3_EncodeOfDecodeCanonical ==
    \A k \in 1..Len(ec_hist) :
        (/\ ec_hist[k].fn = "ec2_id_to_id"
         /\ MatchesEc2Id(ec_hist[k].arg.v)
         /\ ec_hist[k].arg.v[3] # "0")
        => /\ ec_hist[k].ret.st = "returned"
           /\ ec_hist[k].ret.val.v > 0
           /\ (k < Len(ec_hist) /\ ec_hist[k + 1].fn = "id_to_ec2_id")
                 => ec_hist[k + 1].ret = Returned(ec_hist[k].arg)

\* an id of two different digits, none of them a leading zero, was decoded
\* and the result encoded again
C3_Witness ==
    /\ Len(ec_hist) = 2
    /\ ec_hist[1].fn = "ec2_id_to_id"
    /\ MatchesEc2Id(ec_hist[1].arg.v)
    /\ Len(ec_hist[1].arg.v) = 4
    /\ ec_hist[1].arg.v[3] # "0"
    /\ ec_hist[1].arg.v[3] # ec_hist[1].arg.v[4]
    /\ ec_hist[2].fn = "id_to_ec2_id"

\* C4: id_to_ec2_id returns "i-" and the base-36 numeral of n for n >= 0, and
\* for n < 0 it raises: it neither iterates on such an n nor returns
C4_EncodeTotal ==
    /\ (ec_pc = "loop" /\ ec_arg < 0) => digits = <<>>
    /\ \A k \in 1..Len(ec_hist) :
          ec_hist[k].fn = "id_to_ec2_id"
          => /\ ec_hist[k].arg.v >= 0
             /\ ec_hist[k].ret
                  = Returned(PyS(<<"i", "-">> \o Base36Numeral(ec_hist[k].arg.v)))

\* what the loop does on n < 0: the floor division keeps instance_id
\* negative, so the exit test instance_id != 0 never fails and the call
\* never returns
EncodeOfNegativeNeverReturns ==
    /\ (ec_pc = "loop" /\ ec_arg < 0) => instance_id < 0
    /\ \A k \in 1..Len(ec_hist) :
          ec_hist[k].fn = "id_to_ec2_id" => ec_hist[k].arg.v >= 0

\* what the code does for n >= 1: the numeral of n, which decodes to n
EncodeOfPositive ==
    \A k \in 1..Len(ec_hist) :
        (ec_hist[k].fn = "id_to_ec2_id" /\ ec_hist[k].arg.v >= 1)
        => /\ ec_hist[k].ret
                = Returned(PyS(<<"i", "-">> \o Base36Numeral(ec_hist[k].arg.v)))
           /\ (k < Len(ec_hist) /\ ec_hist[k + 1].fn = "ec2_id_to_id")
                 => ec_hist[k + 1].ret = Returned(ec_hist[k].arg)

-----------------------------------------------------------------------------
(* The codec on its own *)

\* the codec on its own: every other part of the state stays as constructed
CodecInit ==
    /\ ec_pc = "idle"
    /\ ec_arg = 0
    /\ instance_id = 0
    /\ digits = <<>>
    /\ ec_hist = <<>>
    /\ cn_args = <<>>
    /\ cn_out = [st |-> "new"]
    /\ groups = {}
    /\ rules = <<>>
    /\ next_rule_id = 1
    /\ inflight = <<>>
    /\ resp = [op |-> "none"]
    /\ casts = <<>>
    /\ key_pairs = <<>>
    /\ keygen_calls = 0
    /\ kp_inflight = <<>>
    /\ kp_resp = [op |-> "none"]
    /\ instances = <<>>
    /\ next_instance_id = 1
    /\ inst_resp = [op |-> "none"]
    /\ security_group = [id |-> 0, instances |-> <<>>]
    /\ rpc_casts = <<>>
    /\ flag_dict = <<>>
    /\ dirty = <<>>
    /\ is_dirty = <<>>
    /\ was_already_parsed = FALSE
    /\ stored_argv = <<>>
    /\ flags_resp = [op |-> "none"]
    /\ upd_resp = [op |-> "none"]
    /\ volumes = <<>>
    /\ vol_resp = [op |-> "none"]
    /\ images = <<>>
    /\ img_resp = [op |-> "none"]

CodecNext ==
    \/ IdToEc2IdCall
    \/ IdToEc2IdOfResult
    \/ IdToEc2IdLoop
    \/ IdToEc2IdReturn
    \/ Ec2IdToIdCall
    \/ Ec2IdToIdOfResult

SpecCodec == CodecInit /\ [][CodecNext]_vars

-----------------------------------------------------------------------------
(* Datastore contents and request arguments *)

P1 == <<"p", "1">>
P2 == <<"p", "2">>
N_web     == <<"w", "e", "b">>
N_db      == <<"d", "b">>
N_default == <<"d", "e", "f", "a", "u", "l", "t">>
N_nope    == <<"n", "o", "p", "e">>
S_tcp  == <<"t", "c", "p">>
S_TCP  == <<"T", "C", "P">>
S_UDP  == <<"U", "D", "P">>
S_ICMP == <<"I", "C", "M", "P">>
S_xxx  == <<"x", "x", "x">>
Cidr_Any == <<"0", ".", "0", ".", "0", ".", "0", "/", "0">>
Cidr_10  == <<"1", "0", ".", "0", ".", "0", ".", "0", "/", "8">>
Cidr_Bad == <<"1", "0", ".", "0", ".", "0">> \o <<".", "2", "5", "6">>
Owner_u_p2 == <<"u", ":", "p", "2">>

\* the project of the request context
ContextProject == P1

\* security groups present before the first request: two of the caller's
\* project, one of another project that shares a name with one of them
InitialGroups ==
    { [id |-> 1, project_id |-> P1, name |-> N_web],
      [id |-> 2, project_id |-> P1, name |-> N_db],
      [id |-> 3, project_id |-> P2, name |-> N_web] }

\* IPy.IP(cidr_ip) returns for a well-formed network and raises otherwise
IPyAccepts(s) == s \in {Cidr_Any, Cidr_10}

\* db.security_group_get_by_name(context, project_id, name)
SecurityGroupGetByName(gs, project, name) ==
    IF \E g \in gs : g.project_id = project /\ g.name = name
    THEN Returned(CHOOSE g \in gs : g.project_id = project /\ g.name = name)
    ELSE Raised("NotFound")

\* compute_api.ensure_default_security_group(context): creates the project's
\* 'default' group when it is missing
EnsureDefaultSecurityGroup(gs) ==
    IF \E g \in gs : g.project_id = ContextProject /\ g.name = N_default
    THEN gs
    ELSE gs \cup {[id |-> 1 + Cardinality(InitialGroups),
                   project_id |-> ContextProject, name |-> N_default]}

-----------------------------------------------------------------------------
(* Rule canonicalizer *)

\* s.split(':')
RECURSIVE SplitColon(_)
SplitColon(s) ==
    IF \E k \in 1..Len(s) : s[k] = ":"
    THEN LET k == CHOOSE j \in 1..Len(s) :
                     s[j] = ":" /\ \A h \in 1..(j - 1) : s[h] # ":"
         IN  <<SubSeq(s, 1, k - 1)>> \o SplitColon(SubSeq(s, k + 1, Len(s)))
    ELSE <<s>>

\* _get_source_project_id
GetSourceProjectId(owner) ==
    IF Truthy(owner)
    THEN LET source_parts == SplitColon(owner.v)
         IN  IF Len(source_parts) = 2 THEN source_parts[2]
             ELSE source_parts[1]
    ELSE ContextProject

\* int(x) for x an int or a str
PyInt(x) == IF x.t = "int" THEN Returned(x.v) ELSE PyIntStr(x.v, 10)

PyMin(a, b) == IF a < b THEN a ELSE b
PyMax(a, b) == IF a > b THEN a ELSE b

\* the first half of _revoke_rule_args_to_dict: group_id or cidr
RuleSource(gs, a) ==
    IF Truthy(a.source_security_group_name)
    THEN LET g == SecurityGroupGetByName(gs,
                     GetSourceProjectId(a.source_security_group_owner_id),
                     a.source_security_group_name.v)
         IN  IF g.st = "raised" THEN g
             ELSE Returned("group_id" :> PyI(g.val.id))
    ELSE IF Truthy(a.cidr_ip)
    THEN IF IPyAccepts(a.cidr_ip.v) THEN Returned("cidr" :> a.cidr_ip)
         ELSE Raised("ValueError")
    ELSE Returned("cidr" :> PyS(Cidr_Any))

\* if ip_protocol and from_port and to_port
HasProtocolAndPorts(a) ==
    Truthy(a.ip_protocol) /\ Truthy(a.from_port) /\ Truthy(a.to_port)

\* the port range test of _revoke_rule_args_to_dict
PortRangeInvalid(from_port, to_port) ==
    \/ PyMin(from_port, to_port) < -1
    \/ PyMax(from_port, to_port) > 65535

ValidProtocols == {S_TCP, S_UDP, S_ICMP}

\* a canonicalizer that lets a CIDR rule without protocol and ports through
IsCidrBased_Never(values) == FALSE

\* if 'cidr' in values
IsCidrBased(values) == "cidr" \in DOMAIN values

\* _revoke_rule_args_to_dict: Returned(PyNone), Returned of a dict (a
\* function from its keys to their values) or Raised
RevokeRuleArgsToDict(gs, a) ==
    LET src == RuleSource(gs, a)
    IN  IF src.st = "raised" THEN src
        ELSE IF HasProtocolAndPorts(a)
        THEN LET fp == PyInt(a.from_port)
                 tp == PyInt(a.to_port)
             IN  IF fp.st = "raised" THEN fp
                 ELSE IF tp.st = "raised" THEN tp
                 ELSE IF StrUpper(a.ip_protocol.v) \notin ValidProtocols
                 THEN Raised("InvalidInputException")
                 ELSE IF PortRangeInvalid(fp.val, tp.val)
                 THEN Raised("InvalidInputException")
                 ELSE Returned([t |-> "dict",
                                v |-> src.val @@ ("protocol" :> a.ip_protocol)
                                              @@ ("from_port" :> PyI(fp.val))
                                              @@ ("to_port" :> PyI(tp.val))])
        ELSE IF IsCidrBased(src.val) THEN Returned(PyNone)
        ELSE Returned([t |-> "dict", v |-> src.val])

\* keyword arguments the canonicalizer is called with on its own
CanonProtocols == {PyNone, PyS(S_tcp), PyS(S_TCP), PyS(S_UDP), PyS(S_ICMP),
                   PyS(S_xxx)}
CanonPorts ==
    {PyNone, PyI(-2), PyI(-1), PyI(0), PyI(22), PyI(65535), PyI(65536),
     PyS(<<"-", "2">>), PyS(<<"-", "1">>), PyS(<<"0">>), PyS(<<"2", "2">>),
     PyS(<<"6", "5", "5", "3", "5">>), PyS(<<"6", "5", "5", "3", "6">>),
     PyS(<<"z">>)}
CanonArgs ==
    [ip_protocol : CanonProtocols, from_port : CanonPorts,
     to_port : CanonPorts,
     cidr_ip : {PyNone, PyS(Cidr_10), PyS(Cidr_Bad)},
     source_security_group_name : {PyNone, PyS(N_web), PyS(N_nope)},
     source_security_group_owner_id : {PyNone, PyS(Owner_u_p2)}]

\* _revoke_rule_args_to_dict(context, **kwargs)
CanonCall ==
    /\ cn_out.st = "new"
    /\ cn_out' = RevokeRuleArgsToDict(groups, cn_args)
    /\ UNCHANGED cn_args
    /\ UNCHANGED nonCanonVars

CanonInit ==
    /\ cn_args \in CanonArgs
    /\ cn_out = [st |-> "new"]
    /\ groups = InitialGroups
    /\ rules = <<>>
    /\ next_rule_id = 1
    /\ inflight = <<>>
    /\ resp = [op |-> "none"]
    /\ casts = <<>>
    /\ ec_pc = "idle"
    /\ ec_arg = 0
    /\ instance_id = 0
    /\ digits = <<>>
    /\ ec_hist = <<>>
    /\ key_pairs = <<>>
    /\ keygen_calls = 0
    /\ kp_inflight = <<>>
    /\ kp_resp = [op |-> "none"]
    /\ instances = <<>>
    /\ next_instance_id = 1
    /\ inst_resp = [op |-> "none"]
    /\ security_group = [id |-> 0, instances |-> <<>>]
    /\ rpc_casts = <<>>
    /\ flag_dict = <<>>
    /\ dirty = <<>>
    /\ is_dirty = <<>>
    /\ was_already_parsed = FALSE
    /\ stored_argv = <<>>
    /\ flags_resp = [op |-> "none"]
    /\ upd_resp = [op |-> "none"]
    /\ volumes = <<>>
    /\ vol_resp = [op |-> "none"]
    /\ images = <<>>
    /\ img_resp = [op |-> "none"]

CanonNext == CanonCall

SpecCanon == CanonInit /\ [][CanonNext]_vars

-----------------------------------------------------------------------------
(* authorize_security_group_ingress and revoke_security_group_ingress *)

MaxRuleId == 2   \* rule rows created in one behaviour

Workers == {1, 2}
Idle == [pc |-> "idle"]

Args(group_name, ip_protocol, from_port, to_port, cidr_ip, source, owner) ==
    [group_name |-> group_name, ip_protocol |-> ip_protocol,
     from_port |-> from_port, to_port |-> to_port, cidr_ip |-> cidr_ip,
     source_security_group_name |-> source,
     source_security_group_owner_id |-> owner]

\* no request yet
NoArgs == Args(<<>>, PyNone, PyNone, PyNone, PyNone, PyNone, PyNone)

\* protocol and ports of the requests: all absent, one absent, two valid
PortSpecs ==
    { <<PyNone, PyNone, PyNone>>, <<PyS(S_tcp), PyI(22), PyNone>>,
      <<PyS(S_tcp), PyI(22), PyI(22)>>, <<PyS(S_tcp), PyI(22), PyI(80)>> }

\* requests on group 'web': the default cidr and the source group 'db' with
\* each of PortSpecs, another cidr and another source group
WebRequests ==
    { Args(N_web, p[1], p[2], p[3], PyNone, c, PyNone) :
        p \in PortSpecs, c \in {PyNone, PyS(N_db)} }
    \cup
    { Args(N_web, PyS(S_tcp), PyI(22), PyI(22), PyS(Cidr_10), PyNone, PyNone),
      Args(N_web, PyNone, PyNone, PyNone, PyNone, PyS(N_web), PyNone),
      Args(N_web, PyS(S_tcp), PyI(22), PyI(22), PyNone, PyS(N_web), PyNone) }

\* requests on group 'db'
DbRequests ==
    { Args(N_db, PyS(S_tcp), PyI(22), PyI(22), PyNone, PyNone, PyNone),
      Args(N_db, PyNone, PyNone, PyNone, PyNone, PyS(N_web), PyNone) }

\* requests that fail validation or name a group of another project
OddRequests ==
    { Args(N_nope, PyS(S_tcp), PyI(22), PyI(22), PyNone, PyNone, PyNone),
      Args(N_web, PyNone, PyNone, PyNone, PyNone, PyS(N_nope), PyNone),
      Args(N_web, PyNone, PyNone, PyNone, PyNone, PyS(N_web), PyS(Owner_u_p2)),
      Args(N_web, PyS(S_tcp), PyI(22), PyI(22), PyS(Cidr_Bad), PyNone, PyNone),
      Args(N_web, PyS(S_xxx), PyI(22), PyI(22), PyNone, PyNone, PyNone),
      Args(N_web, PyS(S_tcp), PyI(22), PyI(65536), PyNone, PyNone, PyNone) }

Requests == WebRequests \cup DbRequests \cup OddRequests

\* security_group.rules of the group read from the datastore
RulesOf(rs, gid) == SelectSeq(rs, LAMBDA r : r.parent_group_id = gid)

Col(values, k) == IF k \in DOMAIN values THEN values[k] ELSE PyNone

\* db.security_group_rule_create(context, values): the row it inserts.
\* origin is history: the arguments of the request that created the row.
RuleRow(id, values, a) ==
    [id |-> id, parent_group_id |-> values["parent_group_id"].v,
     cidr |-> Col(values, "cidr"), group_id |-> Col(values, "group_id"),
     protocol |-> Col(values, "protocol"),
     from_port |-> Col(values, "from_port"),
     to_port |-> Col(values, "to_port"), origin |-> a]

\* a comparison whose cidr branch never reports a duplicate
RuleEquals_GroupOnly(rule, values) ==
    "group_id" \in DOMAIN values
    /\ PyEq(rule["group_id"], values["group_id"])

\* a comparison that also compares the ports of group rules
RuleEquals_GroupAndPorts(rule, values) ==
    \A key \in {"cidr", "group_id", "from_port", "to_port", "protocol"} :
        PyEq(rule[key], Col(values, key))

\* the body of the loop of _security_group_rule_exists
RuleEquals(rule, values) ==
    IF "group_id" \in DOMAIN values
    THEN PyEq(rule["group_id"], values["group_id"])
    ELSE \A key \in {"cidr", "from_port", "to_port", "protocol"} :
             PyEq(rule[key], values[key])

\* _security_group_rule_exists(security_group, values)
SecurityGroupRuleExists(group_rules, values) ==
    \E k \in 1..Len(group_rules) : RuleEquals(group_rules[k], values)

\* the inner loop of revoke_security_group_ingress:
\* getattr(rule, k, False) != v for (k, v) in criteria.iteritems()
RuleMatches(rule, criteria) ==
    \A k \in DOMAIN criteria : PyEq(rule[k], criteria[k])

\* an outer loop that destroys the first rule whatever the comparison says
FirstMatch_Any(group_rules, criteria) ==
    IF group_rules = <<>> THEN 0 ELSE Head(group_rules).id

\* the outer loop of revoke_security_group_ingress that takes the last match
RECURSIVE FirstMatch_Last(_, _)
FirstMatch_Last(group_rules, criteria) ==
    IF group_rules = <<>> THEN 0
    ELSE IF RuleMatches(group_rules[Len(group_rules)], criteria)
    THEN group_rules[Len(group_rules)].id
    ELSE FirstMatch_Last(SubSeq(group_rules, 1, Len(group_rules) - 1), criteria)

\* the outer loop of revoke_security_group_ingress: the id of the first rule
\* that matches, 0 when the loop ends without one
RECURSIVE FirstMatch(_, _)
FirstMatch(group_rules, criteria) ==
    IF group_rules = <<>> THEN 0
    ELSE IF RuleMatches(Head(group_rules), criteria) THEN Head(group_rules).id
    ELSE FirstMatch(Tail(group_rules), criteria)

\* cidr rule or group rule, as the request asks for it
KindOf(a) == IF Truthy(a.source_security_group_name) THEN "group" ELSE "cidr"

Response(op, gid, a, result, rule_id) ==
    [op |-> op, group |-> gid, kind |-> KindOf(a), args |-> a,
     result |-> result, rule |-> rule_id]

\* the handler raises before any write to the rule table
FailEarly(w, op, gid, a, result) ==
    /\ resp' = Response(op, gid, a, result, 0)
    /\ casts' = <<>>
    /\ groups' = EnsureDefaultSecurityGroup(groups)
    /\ UNCHANGED <<rules, next_rule_id, inflight>>

\* a handler that inserts the rule first and looks for a duplicate after
AuthorizeBegin_CreateFirst(w, a) ==
    /\ inflight[w] = Idle
    /\ LET gs == EnsureDefaultSecurityGroup(groups)
           sg == SecurityGroupGetByName(gs, ContextProject, a.group_name)
           c  == RevokeRuleArgsToDict(gs, a)
       IN  IF sg.st = "raised" THEN FailEarly(w, "authorize", 0, a, sg.val)
           ELSE IF c.st = "raised"
           THEN FailEarly(w, "authorize", sg.val.id, a, c.val)
           ELSE IF c.val.t = "none"
           THEN FailEarly(w, "authorize", sg.val.id, a, "NotEnoughParameters")
           ELSE LET values ==
                      c.val.v @@ ("parent_group_id" :> PyI(sg.val.id))
                    dup == SecurityGroupRuleExists(RulesOf(rules, sg.val.id),
                                                   values)
                IN  /\ next_rule_id <= MaxRuleId
                    /\ rules' = Append(rules,
                                       RuleRow(next_rule_id, values, a))
                    /\ next_rule_id' = next_rule_id + 1
                    /\ resp' = Response("authorize", sg.val.id, a,
                                        IF dup THEN "RuleExists" ELSE "True",
                                        IF dup THEN 0 ELSE next_rule_id)
                    /\ casts' = IF dup THEN <<>> ELSE <<sg.val.id>>
                    /\ groups' = gs
                    /\ UNCHANGED inflight
    /\ UNCHANGED nonSGVars

\* authorize_security_group_ingress up to the call of
\* db.security_group_rule_create
AuthorizeBegin(w, a) ==
    /\ inflight[w] = Idle
    /\ LET gs == EnsureDefaultSecurityGroup(groups)
           sg == SecurityGroupGetByName(gs, ContextProject, a.group_name)
           c  == RevokeRuleArgsToDict(gs, a)
       IN  IF sg.st = "raised" THEN FailEarly(w, "authorize", 0, a, sg.val)
           ELSE IF c.st = "raised"
           THEN FailEarly(w, "authorize", sg.val.id, a, c.val)
           ELSE IF c.val.t = "none"
           THEN FailEarly(w, "authorize", sg.val.id, a, "NotEnoughParameters")
           ELSE LET values ==
                      c.val.v @@ ("parent_group_id" :> PyI(sg.val.id))
                IN  IF SecurityGroupRuleExists(RulesOf(rules, sg.val.id), values)
                    THEN FailEarly(w, "authorize", sg.val.id, a, "RuleExists")
                    ELSE /\ next_rule_id <= MaxRuleId
                         /\ inflight' = [inflight EXCEPT ![w] =
                                [pc |-> "create", group |-> sg.val.id,
                                 values |-> values, args |-> a]]
                         /\ groups' = gs
                         /\ casts' = <<>>
                         /\ UNCHANGED <<rules, next_rule_id, resp>>
    /\ UNCHANGED nonSGVars

\* db.security_group_rule_create, trigger_security_group_rules_refresh,
\* return True
AuthorizeCreate(w) ==
    /\ inflight[w].pc = "create"
    /\ next_rule_id <= MaxRuleId
    /\ rules' = Append(rules,
                  RuleRow(next_rule_id, inflight[w].values, inflight[w].args))
    /\ next_rule_id' = next_rule_id + 1
    /\ casts' = <<inflight[w].group>>
    /\ resp' = Response("authorize", inflight[w].group, inflight[w].args,
                        "True", next_rule_id)
    /\ inflight' = [inflight EXCEPT ![w] = Idle]
    /\ UNCHANGED groups
    /\ UNCHANGED nonSGVars

\* revoke_security_group_ingress up to the call of
\* db.security_group_rule_destroy
RevokeBegin(w, a) ==
    /\ inflight[w] = Idle
    /\ LET gs == EnsureDefaultSecurityGroup(groups)
           sg == SecurityGroupGetByName(gs, ContextProject, a.group_name)
           c  == RevokeRuleArgsToDict(gs, a)
       IN  IF sg.st = "raised" THEN FailEarly(w, "revoke", 0, a, sg.val)
           ELSE IF c.st = "raised"
           THEN FailEarly(w, "revoke", sg.val.id, a, c.val)
           ELSE IF c.val.t = "none"
           THEN FailEarly(w, "revoke", sg.val.id, a, "NotEnoughParameters")
           ELSE LET hit == FirstMatch(RulesOf(rules, sg.val.id), c.val.v)
                IN  IF hit = 0
                    THEN FailEarly(w, "revoke", sg.val.id, a, "NoRule")
                    ELSE /\ inflight' = [inflight EXCEPT ![w] =
                                [pc |-> "destroy", group |-> sg.val.id,
                                 rule |-> hit, criteria |-> c.val.v,
                                 args |-> a]]
                         /\ groups' = gs
                         /\ casts' = <<>>
                         /\ UNCHANGED <<rules, next_rule_id, resp>>
    /\ UNCHANGED nonSGVars

\* db.security_group_rule_destroy(context, id): the table without that row
RuleDestroy(rs, id) == SelectSeq(rs, LAMBDA r : r.id # id)

\* db.security_group_rule_destroy, trigger_security_group_rules_refresh,
\* return True; the datastore raises NotFound for a row that is gone
RevokeDestroy(w) ==
    /\ inflight[w].pc = "destroy"
    /\ IF \E k \in 1..Len(rules) : rules[k].id = inflight[w].rule
       THEN /\ rules' = RuleDestroy(rules, inflight[w].rule)
            /\ casts' = <<inflight[w].group>>
            /\ resp' = Response("revoke", inflight[w].group, inflight[w].args,
                                "True", inflight[w].rule)
       ELSE /\ rules' = rules
            /\ casts' = <<>>
            /\ resp' = Response("revoke", inflight[w].group, inflight[w].args,
                                "NotFound", 0)
    /\ inflight' = [inflight EXCEPT ![w] = Idle]
    /\ UNCHANGED <<groups, next_rule_id>>
    /\ UNCHANGED nonSGVars

\* the controller after construction, before any request
Init ==
    /\ groups = InitialGroups
    /\ rules = <<>>
    /\ next_rule_id = 1
    /\ inflight = [w \in Workers |-> Idle]
    /\ resp = [op |-> "none", group |-> 0, kind |-> "none", args |-> NoArgs,
               result |-> "none", rule |-> 0]
    /\ casts = <<>>
    /\ cn_args = <<>>
    /\ cn_out = [st |-> "new"]
    /\ ec_pc = "idle"
    /\ ec_arg = 0
    /\ instance_id = 0
    /\ digits = <<>>
    /\ ec_hist = <<>>
    /\ key_pairs = <<>>
    /\ keygen_calls = 0
    /\ kp_inflight = <<>>
    /\ kp_resp = [op |-> "none"]
    /\ instances = <<>>
    /\ next_instance_id = 1
    /\ inst_resp = [op |-> "none"]
    /\ security_group = [id |-> 0, instances |-> <<>>]
    /\ rpc_casts = <<>>
    /\ flag_dict = <<>>
    /\ dirty = <<>>
    /\ is_dirty = <<>>
    /\ was_already_parsed = FALSE
    /\ stored_argv = <<>>
    /\ flags_resp = [op |-> "none"]
    /\ upd_resp = [op |-> "none"]
    /\ volumes = <<>>
    /\ vol_resp = [op |-> "none"]
    /\ images = <<>>
    /\ img_resp = [op |-> "none"]

\* requests served one at a time
Next ==
    \/ \E a \in Requests : AuthorizeBegin(1, a)
    \/ AuthorizeCreate(1)
    \/ \E a \in Requests : RevokeBegin(1, a)
    \/ RevokeDestroy(1)

Spec == Init /\ [][Next]_vars

\* two requests served at once, each suspended at its datastore write
ConcRequests ==
    { Args(N_web, PyS(S_tcp), PyI(22), PyI(22), PyNone, PyNone, PyNone),
      Args(N_web, PyNone, PyNone, PyNone, PyNone, PyS(N_db), PyNone),
      Args(N_web, PyS(S_tcp), PyI(22), PyI(22), PyNone, PyS(N_db), PyNone),
      Args(N_db, PyS(S_tcp), PyI(22), PyI(22), PyNone, PyNone, PyNone) }

ConcNext ==
    \E w \in Workers :
        \/ \E a \in ConcRequests : AuthorizeBegin(w, a)
        \/ AuthorizeCreate(w)
        \/ \E a \in ConcRequests : RevokeBegin(w, a)
        \/ RevokeDestroy(w)

SpecConc == Init /\ [][ConcNext]_vars

-----------------------------------------------------------------------------
(* Claims on the handlers *)

TargetOf(a) == SecurityGroupGetByName(groups, ContextProject, a.group_name)
SourceOf(a) ==
    SecurityGroupGetByName(groups,
        GetSourceProjectId(a.source_security_group_owner_id),
        a.source_security_group_name.v)

\* the arguments of the request whose handler took this step: a handler
\* that ended left them in resp, one that is suspended holds them
StepArgs(w) == IF inflight'[w] = Idle THEN resp'.args ELSE inflight'[w].args

\* the handler of worker w ended in this step with this error and wrote
\* nothing: no rule created or destroyed, none pending, no refresh
Rejected(w, op, a, result) ==
    /\ inflight'[w] = Idle
    /\ resp'.op = op /\ resp'.args = a /\ resp'.result = result
    /\ rules' = rules
    /\ next_rule_id' = next_rule_id
    /\ casts' = <<>>

\* C5: once authorize_security_group_ingress has created a CIDR rule on a
\* group, the same request (same group, cidr, ports and protocol) fails with
\* the duplicate error, creates no rule and leaves the rules unchanged
C5_SecondAuthorizeIsDuplicate ==
    [][LET a == StepArgs(1) IN
          (/\ AuthorizeBegin(1, a)
           /\ KindOf(a) = "cidr"
           /\ \E k \in 1..Len(rules) : rules[k].origin = a)
          => Rejected(1, "authorize", a, "RuleExists")]_vars

\* a CIDR rule was refused as a duplicate in a group that holds it
C5_Witness ==
    /\ resp.op = "authorize"
    /\ resp.kind = "cidr"
    /\ resp.result = "RuleExists"
    /\ \E k \in 1..Len(rules) : rules[k].origin = resp.args

\* C6: a group-reference authorization is rejected as a duplicate if and
\* only if the target group holds a rule with the same source group_id,
\* whatever the ports and protocol of the rule and of the request
C6_GroupDuplicateIffSameSource ==
    [][LET a == StepArgs(1) IN
          (/\ AuthorizeBegin(1, a)
           /\ KindOf(a) = "group"
           /\ TargetOf(a).st = "returned"
           /\ SourceOf(a).st = "returned")
          => LET held == \E k \in 1..Len(rules) :
                            /\ rules[k].parent_group_id = TargetOf(a).val.id
                            /\ rules[k].group_id = PyI(SourceOf(a).val.id)
             IN  /\ held => Rejected(1, "authorize", a, "RuleExists")
                 /\ ~held => /\ inflight'[1].pc = "create"
                             /\ inflight'[1].args = a
                             /\ inflight'[1].values["group_id"]
                                   = PyI(SourceOf(a).val.id)]_vars

\* a group holds rules for two source groups with the same ports, and a
\* further authorization of one of these source groups, with other ports,
\* was refused as a duplicate
C6_Witness ==
    /\ resp.op = "authorize"
    /\ resp.kind = "group"
    /\ resp.result = "RuleExists"
    /\ \E k, h \in 1..Len(rules) :
          /\ rules[k].parent_group_id = resp.group
          /\ rules[h].parent_group_id = resp.group
          /\ rules[k].group_id.t = "int"
          /\ rules[h].group_id.t = "int"
          /\ rules[k].group_id # rules[h].group_id
          /\ rules[k].to_port.t = "int"
          /\ rules[k].to_port = rules[h].to_port
          /\ rules[k].origin.source_security_group_name
                = resp.args.source_security_group_name
          /\ rules[k].origin.to_port # resp.args.to_port

\* the rule agrees with the criteria on every field the criteria hold
Agrees(rule, criteria) == \A f \in DOMAIN criteria : rule[f] = criteria[f]

\* C7: a revoke whose canonical criteria match no rule of the target group
\* fails with the no-rule error, destroys nothing, triggers no refresh and
\* leaves the rules of every group unchanged
C7_RevokeWithoutMatchFails ==
    [][LET a == StepArgs(1) IN
          (/\ RevokeBegin(1, a)
           /\ TargetOf(a).st = "returned"
           /\ RevokeRuleArgsToDict(groups, a).st = "returned"
           /\ RevokeRuleArgsToDict(groups, a).val.t = "dict"
           /\ ~\E k \in 1..Len(rules) :
                 /\ rules[k].parent_group_id = TargetOf(a).val.id
                 /\ Agrees(rules[k], RevokeRuleArgsToDict(groups, a).val.v))
          => Rejected(1, "revoke", a, "NoRule")]_vars

\* a revoke found no match in a group that holds rules
C7_Witness ==
    /\ resp.op = "revoke"
    /\ resp.result = "NoRule"
    /\ \E k \in 1..Len(rules) : rules[k].parent_group_id = resp.group

\* C9: the canonicalizer returns no value set for a CIDR based request
\* (explicit cidr_ip or the default) when protocol, from_port or to_port is
\* absent, and a value set of group_id alone for a group request without
\* them; no CIDR rule in the table lacks its protocol or a port
AbsentArgs ==
    { Args(N_web, p, f, t, c, g, PyNone) :
        p \in {PyNone, PyS(S_tcp)}, f \in {PyNone, PyI(22)},
        t \in {PyNone, PyI(22)}, c \in {PyNone, PyS(Cidr_10)},
        g \in {PyNone, PyS(N_db)} }

C9_NoUnderspecifiedCidrRule ==
    /\ \A k \in 1..Len(rules) :
          rules[k].cidr.t # "none"
          => /\ rules[k].protocol.t # "none"
             /\ rules[k].from_port.t # "none"
             /\ rules[k].to_port.t # "none"
    /\ \A a \in AbsentArgs :
          /\ (/\ KindOf(a) = "cidr"
              /\ \/ a.ip_protocol.t = "none"
                 \/ a.from_port.t = "none"
                 \/ a.to_port.t = "none")
             => RevokeRuleArgsToDict(groups, a) = Returned(PyNone)
          /\ (/\ KindOf(a) = "group"
              /\ a.ip_protocol.t = "none"
              /\ a.from_port.t = "none"
              /\ a.to_port.t = "none")
             => RevokeRuleArgsToDict(groups, a)
                  = Returned([t |-> "dict",
                              v |-> "group_id" :> PyI(SourceOf(a).val.id)])

\* a CIDR request without to_port was refused for lack of parameters while
\* the table holds a group rule without protocol and ports
C9_Witness ==
    /\ resp.op = "authorize"
    /\ resp.kind = "cidr"
    /\ resp.result = "NotEnoughParameters"
    /\ resp.args.ip_protocol.t # "none"
    /\ resp.args.to_port.t = "none"
    /\ \E k \in 1..Len(rules) :
          rules[k].group_id.t = "int" /\ rules[k].protocol.t = "none"

\* C8: a successful revoke destroys exactly one rule, the first rule in the
\* group's order that equals the criteria on every field they hold; every
\* other rule, later matching rules and rules of other groups included,
\* stays as it is
C8_RevokeDestroysFirstMatch ==
    [][\A w \in Workers :
          (RevokeDestroy(w) /\ resp'.result = "True")
          => LET a    == inflight[w].args
                 crit == RevokeRuleArgsToDict(groups, a).val.v
                 gid  == TargetOf(a).val.id
             IN  \E i \in 1..Len(rules) :
                    /\ rules[i].parent_group_id = gid
                    /\ Agrees(rules[i], crit)
                    /\ \A j \in 1..(i - 1) :
                          rules[j].parent_group_id = gid
                          => ~Agrees(rules[j], crit)
                    /\ resp'.rule = rules[i].id
                    /\ rules' = [k \in 1..(Len(rules) - 1) |->
                                   IF k < i THEN rules[k] ELSE rules[k + 1]]
                    /\ casts' = <<gid>>]_vars

\* a revoke succeeded and a later rule of the group that matches the same
\* criteria is still in the table
C8_Witness ==
    /\ resp.op = "revoke"
    /\ resp.result = "True"
    /\ \A k \in 1..Len(rules) : rules[k].id # resp.rule
    /\ \E k \in 1..Len(rules) :
          /\ rules[k].parent_group_id = resp.group
          /\ rules[k].id > resp.rule
          /\ Agrees(rules[k], RevokeRuleArgsToDict(groups, resp.args).val.v)

-----------------------------------------------------------------------------
(* Claims on the canonicalizer, checked under SpecCanon *)

\* the port is an integer of [-1, 65535] or the decimal numeral of one
PortInRange(x) ==
    /\ x.t # "none"
    /\ PyInt(x).st = "returned"
    /\ PyInt(x).val >= -1
    /\ PyInt(x).val <= 65535

\* the request names a source group that exists, a well-formed cidr or none
SourceResolves(a) ==
    IF Truthy(a.source_security_group_name)
    THEN SecurityGroupGetByName(groups,
             GetSourceProjectId(a.source_security_group_owner_id),
             a.source_security_group_name.v).st = "returned"
    ELSE a.cidr_ip.t = "none" \/ IPyAccepts(a.cidr_ip.v)

CarriesProtocolAndPorts(out, a) ==
    /\ out.st = "returned"
    /\ out.val.t = "dict"
    /\ {"protocol", "from_port", "to_port"} \subseteq DOMAIN out.val.v
    /\ out.val.v["protocol"] = a.ip_protocol
    /\ out.val.v["from_port"] = PyI(PyInt(a.from_port).val)
    /\ out.val.v["to_port"] = PyI(PyInt(a.to_port).val)

\* C10: for every protocol of {TCP, UDP, ICMP} and ports both within
\* [-1, 65535], integers or numeric strings, 0 and -1 included, the
\* canonicalizer returns a value set that carries protocol and ports
C10_ValidProtocolAndPortsAccepted ==
    (/\ cn_out.st # "new"
     /\ cn_args.ip_protocol \in {PyS(S_TCP), PyS(S_UDP), PyS(S_ICMP)}
     /\ PortInRange(cn_args.from_port)
     /\ PortInRange(cn_args.to_port)
     /\ SourceResolves(cn_args))
    => CarriesProtocolAndPorts(cn_out, cn_args)

\* what the code does: the same, unless a port is the integer 0, which
\* 'if ip_protocol and from_port and to_port' takes for an absent port
ValidProtocolAndNonZeroPortsAccepted ==
    (/\ cn_out.st # "new"
     /\ cn_args.ip_protocol \in {PyS(S_TCP), PyS(S_UDP), PyS(S_ICMP)}
     /\ PortInRange(cn_args.from_port)
     /\ PortInRange(cn_args.to_port)
     /\ cn_args.from_port # PyI(0)
     /\ cn_args.to_port # PyI(0)
     /\ SourceResolves(cn_args))
    => CarriesProtocolAndPorts(cn_out, cn_args)

\* the request supplies a protocol and two ports that int() accepts
SuppliesProtocolAndPorts(a) ==
    /\ a.ip_protocol.t = "str"
    /\ a.from_port.t # "none"
    /\ a.to_port.t # "none"
    /\ PyInt(a.from_port).st = "returned"
    /\ PyInt(a.to_port).st = "returned"

\* the protocol is outside {TCP, UDP, ICMP} or a port is outside [-1, 65535]
ProtocolOrPortInvalid(a) ==
    \/ StrUpper(a.ip_protocol.v) \notin {S_TCP, S_UDP, S_ICMP}
    \/ PyInt(a.from_port).val < -1
    \/ PyInt(a.from_port).val > 65535
    \/ PyInt(a.to_port).val < -1
    \/ PyInt(a.to_port).val > 65535

\* C11: whenever a protocol and both ports are supplied, for CIDR and for
\* group requests alike, the canonicalizer raises the invalid-input error
\* if the protocol is outside {TCP, UDP, ICMP} or a port is below -1 or
\* above 65535 (from_port=0, to_port=65536 included); it yields no value set
C11_InvalidProtocolOrPortsRejected ==
    (/\ cn_out.st # "new"
     /\ SuppliesProtocolAndPorts(cn_args)
     /\ SourceResolves(cn_args)
     /\ ProtocolOrPortInvalid(cn_args))
    => cn_out = Raised("InvalidInputException")

\* what the code does: the same when neither port is the integer 0; with
\* a port that is the integer 0 the checks are skipped, a CIDR request has
\* no value set and a group request has the value set of group_id alone
InvalidProtocolOrPortsRejectedUnlessZero ==
    (/\ cn_out.st # "new"
     /\ SuppliesProtocolAndPorts(cn_args)
     /\ SourceResolves(cn_args)
     /\ ProtocolOrPortInvalid(cn_args))
    => IF cn_args.from_port # PyI(0) /\ cn_args.to_port # PyI(0)
       THEN cn_out = Raised("InvalidInputException")
       ELSE IF KindOf(cn_args) = "cidr" THEN cn_out = Returned(PyNone)
       ELSE /\ cn_out.st = "returned"
            /\ cn_out.val.t = "dict"
            /\ DOMAIN cn_out.val.v = {"group_id"}

-----------------------------------------------------------------------------
(* Key pairs: _gen_key, create_key_pair and delete_key_pair *)

MaxKeyGens == 3   \* calls of crypto.generate_key_pair in one behaviour

\* context.user.id of the requests and the key names they use
Users    == {"u1", "u2"}
KeyNames == {"k1", "k2"}

\* the rows of the table that belong to (user_id, name)
KeyPairRows(kps, user_id, name) ==
    {k \in 1..Len(kps) : kps[k].user_id = user_id /\ kps[k].name = name}

\* db.key_pair_get(context, user_id, name)
KeyPairGet(kps, user_id, name) ==
    LET hits == KeyPairRows(kps, user_id, name)
    IN  IF hits = {} THEN Raised("NotFound")
        ELSE Returned(kps[CHOOSE k \in hits : \A h \in hits : k <= h])

\* db.key_pair_destroy(context, user_id, name): the table without the row
\* that key_pair_get finds
KeyPairDestroy(kps, user_id, name) ==
    LET hits == KeyPairRows(kps, user_id, name)
    IN  IF hits = {} THEN Raised("NotFound")
        ELSE LET first == CHOOSE k \in hits : \A h \in hits : k <= h
             IN  Returned([k \in 1..(Len(kps) - 1) |->
                             IF k < first THEN kps[k] ELSE kps[k + 1]])

\* a _gen_key that never finds the key pair
GenKeyIsDuplicate_Never(kps, user_id, name) == FALSE

\* the try block of _gen_key: db.key_pair_get returned, Duplicate is raised
GenKeyIsDuplicate(kps, user_id, name) ==
    KeyPairGet(kps, user_id, name).st = "returned"

KeyResponse(op, user_id, name, result, fingerprint) ==
    [op |-> op, user_id |-> user_id, name |-> name, result |-> result,
     fingerprint |-> fingerprint]

\* create_key_pair and _gen_key up to the call of crypto.generate_key_pair
CreateKeyPairBegin(w, user_id, name) ==
    /\ kp_inflight[w] = Idle
    /\ IF GenKeyIsDuplicate(key_pairs, user_id, name)
       THEN /\ kp_resp' = KeyResponse("create", user_id, name, "Duplicate", 0)
            /\ UNCHANGED <<key_pairs, keygen_calls, kp_inflight>>
       ELSE /\ keygen_calls < MaxKeyGens
            /\ kp_inflight' = [kp_inflight EXCEPT ![w] =
                   [pc |-> "generate", user_id |-> user_id, name |-> name,
                    fingerprint |-> 0]]
            /\ UNCHANGED <<key_pairs, keygen_calls, kp_resp>>
    /\ UNCHANGED nonKPVars

\* crypto.generate_key_pair(): the n-th call makes the n-th key
KeyPairGenerate(w) ==
    /\ kp_inflight[w].pc = "generate"
    /\ keygen_calls < MaxKeyGens
    /\ keygen_calls' = keygen_calls + 1
    /\ kp_inflight' = [kp_inflight EXCEPT ![w].pc = "create",
                                          ![w].fingerprint = keygen_calls + 1]
    /\ UNCHANGED <<key_pairs, kp_resp>>
    /\ UNCHANGED nonKPVars

\* db.key_pair_create(context, key) and the return of create_key_pair
KeyPairCreate(w) ==
    /\ kp_inflight[w].pc = "create"
    /\ key_pairs' = Append(key_pairs,
                      [user_id |-> kp_inflight[w].user_id,
                       name |-> kp_inflight[w].name,
                       fingerprint |-> kp_inflight[w].fingerprint])
    /\ kp_resp' = KeyResponse("create", kp_inflight[w].user_id,
                              kp_inflight[w].name, "True",
                              kp_inflight[w].fingerprint)
    /\ kp_inflight' = [kp_inflight EXCEPT ![w] = Idle]
    /\ UNCHANGED keygen_calls
    /\ UNCHANGED nonKPVars

\* a delete_key_pair that lets NotFound through
DeleteOutcome_Strict(destroyed) ==
    IF destroyed.st = "raised" THEN destroyed.val ELSE "True"

\* try: db.key_pair_destroy ... except exception.NotFound: pass; return True
DeleteOutcome(destroyed) ==
    IF destroyed.st = "raised" /\ destroyed.val # "NotFound"
    THEN destroyed.val ELSE "True"

\* delete_key_pair
DeleteKeyPair(w, user_id, name) ==
    /\ kp_inflight[w] = Idle
    /\ LET destroyed == KeyPairDestroy(key_pairs, user_id, name)
       IN  /\ key_pairs' = IF destroyed.st = "returned" THEN destroyed.val
                           ELSE key_pairs
           /\ kp_resp' = KeyResponse("delete", user_id, name,
                                     DeleteOutcome(destroyed), 0)
    /\ UNCHANGED <<keygen_calls, kp_inflight>>
    /\ UNCHANGED nonKPVars

\* the controller after construction, no key pair stored yet
KeysInit ==
    /\ key_pairs = <<>>
    /\ keygen_calls = 0
    /\ kp_inflight = [w \in Workers |-> Idle]
    /\ kp_resp = KeyResponse("none", "", "", "none", 0)
    /\ instances = <<>>
    /\ next_instance_id = 1
    /\ inst_resp = [op |-> "none"]
    /\ security_group = [id |-> 0, instances |-> <<>>]
    /\ rpc_casts = <<>>
    /\ flag_dict = <<>>
    /\ dirty = <<>>
    /\ is_dirty = <<>>
    /\ was_already_parsed = FALSE
    /\ stored_argv = <<>>
    /\ flags_resp = [op |-> "none"]
    /\ upd_resp = [op |-> "none"]
    /\ volumes = <<>>
    /\ vol_resp = [op |-> "none"]
    /\ images = <<>>
    /\ img_resp = [op |-> "none"]
    /\ groups = InitialGroups
    /\ rules = <<>>
    /\ next_rule_id = 1
    /\ inflight = <<>>
    /\ resp = [op |-> "none"]
    /\ casts = <<>>
    /\ cn_args = <<>>
    /\ cn_out = [st |-> "new"]
    /\ ec_pc = "idle"
    /\ ec_arg = 0
    /\ instance_id = 0
    /\ digits = <<>>
    /\ ec_hist = <<>>

\* key-pair requests served one at a time
KeysNext ==
    \/ \E u \in Users, n \in KeyNames : CreateKeyPairBegin(1, u, n)
    \/ KeyPairGenerate(1)
    \/ KeyPairCreate(1)
    \/ \E u \in Users, n \in KeyNames : DeleteKeyPair(1, u, n)

SpecKeys == KeysInit /\ [][KeysNext]_vars

\* C12: create_key_pair for a (user, name) that already exists fails with
\* the duplicate error before key generation: crypto.generate_key_pair is
\* not called and no key-pair record is created or changed
C12_DuplicateBeforeGeneration ==
    [][\A u \in Users, n \in KeyNames :
          (/\ CreateKeyPairBegin(1, u, n)
           /\ \E k \in 1..Len(key_pairs) :
                 key_pairs[k].user_id = u /\ key_pairs[k].name = n)
          => /\ kp_resp' = KeyResponse("create", u, n, "Duplicate", 0)
             /\ kp_inflight'[1] = Idle
             /\ keygen_calls' = keygen_calls
             /\ key_pairs' = key_pairs]_vars

\* a second create_key_pair of a stored (user, name) was refused, and the
\* only key generated is the one of the stored key pair
C12_Witness ==
    /\ kp_resp.op = "create"
    /\ kp_resp.result = "Duplicate"
    /\ keygen_calls = 1
    /\ \E k \in 1..Len(key_pairs) :
          /\ key_pairs[k].user_id = kp_resp.user_id
          /\ key_pairs[k].name = kp_resp.name

\* the rows of the table that do not belong to (user_id, name)
OtherKeyPairs(kps, user_id, name) ==
    SelectSeq(kps, LAMBDA r : ~(r.user_id = user_id /\ r.name = name))

\* C13: delete_key_pair returns True whether or not the key pair (user,
\* name) exists; afterwards no key pair (user, name) is stored, key pairs
\* of another user or name are unchanged, and a second delete of the same
\* (user, name) leaves the store as the first left it
C13_DeleteIdempotentTolerant ==
    [][\A u \in Users, n \in KeyNames :
          DeleteKeyPair(1, u, n)
          => /\ kp_resp' = KeyResponse("delete", u, n, "True", 0)
             /\ key_pairs' = OtherKeyPairs(key_pairs, u, n)
             /\ (kp_resp = KeyResponse("delete", u, n, "True", 0)
                   => key_pairs' = key_pairs)]_vars

\* delete_key_pair returned True for a key pair that never existed: the
\* only key ever generated belongs to another key pair, which is stored
C13_Witness ==
    /\ kp_resp.op = "delete"
    /\ kp_resp.result = "True"
    /\ KeyPairRows(key_pairs, kp_resp.user_id, kp_resp.name) = {}
    /\ keygen_calls = 1
    /\ Len(key_pairs) = 1

-----------------------------------------------------------------------------
(* Instances: the compute manager as the handlers see it *)

MaxInstances == 3   \* instance rows created in one behaviour

\* FLAGS.vpn_image_id
VpnImageId == "ami-cloudpipe"
ImageIds   == {"ami-1", VpnImageId}

\* id_to_ec2_id run to its end on n >= 0: the loop, then the return
RECURSIVE IdToEc2IdLoopFrom(_, _)
IdToEc2IdLoopFrom(n, ds) ==
    IF n = 0 THEN ds
    ELSE IdToEc2IdLoopFrom(n \div 36, Append(ds, Digits36[(n % 36) + 1]))

IdToEc2Id(n) == IdToEc2IdResult(IdToEc2IdLoopFrom(n, <<>>))

\* a call of the compute manager, as the handler made it
ComputeCall(method, arg) == [method |-> method, arg |-> arg]

\* compute_api.create(..., image_id, min_count, max_count): max_count rows
\* that share a new reservation id, each in its initial state
ComputeCreate(next_id, image_id, min_count, max_count) ==
    [k \in 1..max_count |->
        [id |-> next_id + k - 1, image_id |-> image_id,
         reservation_id |-> next_id, state |-> "scheduling",
         launch_index |-> k - 1]]

\* compute_api.get(context, instance_id)
ComputeGet(insts, id) ==
    IF \E k \in 1..Len(insts) : insts[k].id = id
    THEN Returned(insts[CHOOSE k \in 1..Len(insts) : insts[k].id = id])
    ELSE Raised("NotFound")

\* compute_api.get_all(context, **kwargs): every instance, or those of the
\* reservation the keyword arguments name
ComputeGetAll(insts, kwargs) ==
    IF "reservation_id" \in DOMAIN kwargs
    THEN SelectSeq(insts,
                   LAMBDA r : r.reservation_id = kwargs["reservation_id"])
    ELSE insts

\* compute_api.delete(context, instance_id): the table without the instance
ComputeDelete(insts, id) ==
    IF \E k \in 1..Len(insts) : insts[k].id = id
    THEN Returned(SelectSeq(insts, LAMBDA r : r.id # id))
    ELSE Raised("NotFound")

\* compute_api.reboot(context, instance_id): the instance keeps its row
ComputeReboot(insts, id) ==
    IF \E k \in 1..Len(insts) : insts[k].id = id
    THEN Returned(insts)
    ELSE Raised("NotFound")

-----------------------------------------------------------------------------
(* _format_instances, describe_instances and run_instances *)

\* [ec2_id_to_id(x) for x in instance_id]
RECURSIVE DecodeAll(_)
DecodeAll(ids) ==
    IF ids = <<>> THEN Returned(<<>>)
    ELSE LET h == Ec2IdToId(Head(ids))
         IN  IF h.st = "raised" THEN h
             ELSE LET r == DecodeAll(Tail(ids))
                  IN  IF r.st = "raised" THEN r
                      ELSE Returned(<<h.val>> \o r.val)

\* a lookup that leaves out the ids the compute manager does not know
RECURSIVE GetEach_SkipMissing(_, _)
GetEach_SkipMissing(insts, ids) ==
    IF ids = <<>> THEN [out |-> Returned(<<>>), calls |-> <<>>]
    ELSE LET h    == ComputeGet(insts, Head(ids))
             call == ComputeCall("get", Head(ids))
             r    == GetEach_SkipMissing(insts, Tail(ids))
         IN  [out |-> Returned((IF h.st = "raised" THEN <<>> ELSE <<h.val>>)
                               \o r.out.val),
              calls |-> <<call>> \o r.calls]

\* [self.compute_api.get(context, x) for x in instance_id]: the rows, or
\* the first error, and the calls made
RECURSIVE GetEach(_, _)
GetEach(insts, ids) ==
    IF ids = <<>> THEN [out |-> Returned(<<>>), calls |-> <<>>]
    ELSE LET h    == ComputeGet(insts, Head(ids))
             call == ComputeCall("get", Head(ids))
         IN  IF h.st = "raised" THEN [out |-> h, calls |-> <<call>>]
             ELSE LET r == GetEach(insts, Tail(ids))
                  IN  IF r.out.st = "raised"
                      THEN [out |-> r.out, calls |-> <<call>> \o r.calls]
                      ELSE [out |-> Returned(<<h.val>> \o r.out.val),
                            calls |-> <<call>> \o r.calls]

\* a formatter that hides nothing
Hidden_Never(is_admin, instance) == FALSE

\* if not context.user.is_admin():
\*     if instance['image_id'] == FLAGS.vpn_image_id: continue
Hidden(is_admin, instance) ==
    ~is_admin /\ instance.image_id = VpnImageId

\* the entry i built for one instance
FormatInstance(instance) ==
    [instanceId |-> IdToEc2Id(instance.id), imageId |-> instance.image_id,
     instanceState |-> instance.state,
     amiLaunchIndex |-> instance.launch_index]

\* the loop over instances: the reservations dict, as the sequence of its
\* values in the order their keys were inserted
RECURSIVE GroupReservations(_, _, _)
GroupReservations(is_admin, insts, acc) ==
    IF insts = <<>> THEN acc
    ELSE LET instance == Head(insts)
             known == \E k \in 1..Len(acc) :
                         acc[k].reservationId = instance.reservation_id
             acc1  == IF known THEN acc
                      ELSE Append(acc,
                             [reservationId |-> instance.reservation_id,
                              instancesSet |-> <<>>])
             acc2  == [k \in 1..Len(acc1) |->
                        IF acc1[k].reservationId = instance.reservation_id
                        THEN [acc1[k] EXCEPT !.instancesSet =
                                 Append(@, FormatInstance(instance))]
                        ELSE acc1[k]]
         IN  IF Hidden(is_admin, instance)
             THEN GroupReservations(is_admin, Tail(insts), acc)
             ELSE GroupReservations(is_admin, Tail(insts), acc2)

\* a values() that keeps the order of insertion
DictValues_Ordered(inserted) == {inserted}

\* list(reservations.values()): the order of a dict's values is left to
\* the hash table, so any order of the entries can come back
DictValues(inserted) ==
    { [k \in 1..Len(inserted) |-> inserted[f[k]]] :
        f \in Permutations(1..Len(inserted)) }

\* _format_instances up to its return statement: the entries in insertion
\* order or the error raised, and the calls of the compute manager
FormatInstances(is_admin, ids, kwargs, insts) ==
    IF ids # <<>>
    THEN LET decoded == DecodeAll(ids)
         IN  IF decoded.st = "raised"
             THEN [out |-> decoded, calls |-> <<>>]
             ELSE LET got == GetEach(insts, decoded.val)
                  IN  IF got.out.st = "raised" THEN got
                      ELSE [out |-> Returned(GroupReservations(is_admin,
                                                 got.out.val, <<>>)),
                            calls |-> got.calls]
    ELSE [out |-> Returned(GroupReservations(is_admin,
                               ComputeGetAll(insts, kwargs), <<>>)),
          calls |-> <<ComputeCall("get_all", kwargs)>>]

\* no keyword arguments
NoKwargs == <<>>

InstResponse(op, is_admin, ids, kwargs, result, calls) ==
    [op |-> op, is_admin |-> is_admin, ids |-> ids, kwargs |-> kwargs,
     result |-> result, calls |-> calls]

\* describe_instances(context, instance_id=ids, **kwargs)
DescribeInstances(is_admin, ids, kwargs) ==
    /\ LET f == FormatInstances(is_admin, ids, kwargs, instances)
       IN  IF f.out.st = "raised"
           THEN inst_resp' = InstResponse("describe", is_admin, ids, kwargs,
                                          f.out, f.calls)
           ELSE \E reservationSet \in DictValues(f.out.val) :
                   inst_resp' = InstResponse("describe", is_admin, ids,
                                    kwargs, Returned(reservationSet), f.calls)
    /\ UNCHANGED <<instances, next_instance_id>>
    /\ UNCHANGED nonInstVars

\* a run_instances that asks for two instances when max_count is absent
RunCounts_DefaultTwo(kw_max, kw_min) ==
    LET max_count == IF kw_max.t = "none" THEN 2 ELSE PyInt(kw_max).val
    IN  [max_count |-> max_count,
         min_count |-> IF kw_min.t = "none" THEN max_count
                       ELSE PyInt(kw_min).val]

\* max_count = int(kwargs.get('max_count', 1))
\* min_count = int(kwargs.get('min_count', max_count))
RunCounts(kw_max, kw_min) ==
    LET max_count == IF kw_max.t = "none" THEN 1 ELSE PyInt(kw_max).val
    IN  [max_count |-> max_count,
         min_count |-> IF kw_min.t = "none" THEN max_count
                       ELSE PyInt(kw_min).val]

\* _format_run_instances(context, reservation_id): the one entry, or the
\* failure of 'assert len(i) == 1'
FormatRunInstances(is_admin, reservation_id, insts) ==
    LET f == FormatInstances(is_admin, <<>>,
                             "reservation_id" :> reservation_id, insts)
    IN  [out   |-> IF Len(f.out.val) = 1 THEN Returned(f.out.val[1])
                   ELSE Raised("AssertionError"),
         calls |-> f.calls]

\* keyword arguments of run_instances: max_count and min_count are PyNone
\* when the request does not carry them
RunKwargs(image_id, kw_max, kw_min) ==
    [image_id |-> image_id, max_count |-> kw_max, min_count |-> kw_min]

\* run_instances(context, image_id=..., max_count=..., min_count=...)
RunInstances(is_admin, image_id, kw_max, kw_min) ==
    /\ LET n       == RunCounts(kw_max, kw_min)
           created == ComputeCreate(next_instance_id, image_id,
                                    n.min_count, n.max_count)
           f       == FormatRunInstances(is_admin,
                          created[1].reservation_id, instances \o created)
       IN  /\ next_instance_id + n.max_count - 1 <= MaxInstances
           /\ instances' = instances \o created
           /\ next_instance_id' = next_instance_id + n.max_count
           /\ inst_resp' =
                 InstResponse("run", is_admin, <<>>,
                     RunKwargs(image_id, kw_max, kw_min), f.out,
                     <<ComputeCall("create",
                           [image_id |-> image_id,
                            min_count |-> n.min_count,
                            max_count |-> n.max_count])>> \o f.calls)
    /\ UNCHANGED nonInstVars

-----------------------------------------------------------------------------
(* terminate_instances and reboot_instances *)

\* the call of the compute manager the loop body makes
ComputeApply(method, insts, id) ==
    IF method = "delete" THEN ComputeDelete(insts, id)
    ELSE ComputeReboot(insts, id)

\* for ec2_id in instance_id:
\*     instance_id = ec2_id_to_id(ec2_id)
\*     self.compute_api.<method>(context, instance_id)
\* return True
\* an exception of the body ends the loop and the handler
RECURSIVE BatchRun(_, _, _)
BatchRun(method, insts, ids) ==
    IF ids = <<>>
    THEN [insts |-> insts, calls |-> <<>>, out |-> Returned("True")]
    ELSE LET decoded == Ec2IdToId(Head(ids))
         IN  IF decoded.st = "raised"
             THEN [insts |-> insts, calls |-> <<>>, out |-> decoded]
             ELSE LET done == ComputeApply(method, insts, decoded.val)
                      call == ComputeCall(method, decoded.val)
                  IN  IF done.st = "raised"
                      THEN [insts |-> insts, calls |-> <<call>>,
                            out |-> done]
                      ELSE LET rest == BatchRun(method, done.val, Tail(ids))
                           IN  [insts |-> rest.insts,
                                calls |-> <<call>> \o rest.calls,
                                out |-> rest.out]

\* terminate_instances(context, instance_id=ids)
TerminateInstances(ids) ==
    /\ LET b == BatchRun("delete", instances, ids)
       IN  /\ instances' = b.insts
           /\ inst_resp' = InstResponse("terminate", FALSE, ids, NoKwargs,
                                        b.out, b.calls)
    /\ UNCHANGED next_instance_id
    /\ UNCHANGED nonInstVars

\* reboot_instances(context, instance_id=ids)
RebootInstances(ids) ==
    /\ LET b == BatchRun("reboot", instances, ids)
       IN  /\ instances' = b.insts
           /\ inst_resp' = InstResponse("reboot", FALSE, ids, NoKwargs,
                                        b.out, b.calls)
    /\ UNCHANGED next_instance_id
    /\ UNCHANGED nonInstVars

\* external ids of the requests: of instances 1 to 3, of an instance that
\* does not exist, and a string int() rejects
Ec2_1   == <<"i", "-", "1">>
Ec2_2   == <<"i", "-", "2">>
Ec2_3   == <<"i", "-", "3">>
Ec2_z   == <<"i", "-", "z">>
Ec2_Bad == <<"i", "-", "!">>

\* instance_id lists of the requests
IdLists ==
    { <<>>, <<Ec2_1>>, <<Ec2_2, Ec2_1>>, <<Ec2_1, Ec2_3>>, <<Ec2_z, Ec2_1>>,
      <<Ec2_1, Ec2_Bad, Ec2_2>> }

\* keyword arguments of describe_instances besides instance_id
DescribeKwargs == {NoKwargs, "reservation_id" :> 1}

\* the controller after construction, the compute manager without instances
InstInit ==
    /\ instances = <<>>
    /\ next_instance_id = 1
    /\ inst_resp = InstResponse("none", FALSE, <<>>, NoKwargs,
                                Returned("none"), <<>>)
    /\ security_group = [id |-> 0, instances |-> <<>>]
    /\ rpc_casts = <<>>
    /\ flag_dict = <<>>
    /\ dirty = <<>>
    /\ is_dirty = <<>>
    /\ was_already_parsed = FALSE
    /\ stored_argv = <<>>
    /\ flags_resp = [op |-> "none"]
    /\ upd_resp = [op |-> "none"]
    /\ volumes = <<>>
    /\ vol_resp = [op |-> "none"]
    /\ images = <<>>
    /\ img_resp = [op |-> "none"]
    /\ key_pairs = <<>>
    /\ keygen_calls = 0
    /\ kp_inflight = <<>>
    /\ kp_resp = [op |-> "none"]
    /\ groups = InitialGroups
    /\ rules = <<>>
    /\ next_rule_id = 1
    /\ inflight = <<>>
    /\ resp = [op |-> "none"]
    /\ casts = <<>>
    /\ cn_args = <<>>
    /\ cn_out = [st |-> "new"]
    /\ ec_pc = "idle"
    /\ ec_arg = 0
    /\ instance_id = 0
    /\ digits = <<>>
    /\ ec_hist = <<>>

\* max_count and min_count of the requests: both absent, max_count alone,
\* both given
RunCountArgs ==
    {<<PyNone, PyNone>>, <<PyI(2), PyNone>>, <<PyS(<<"2">>), PyI(1)>>}

\* instance requests served one at a time
InstNext ==
    \/ \E is_admin \in BOOLEAN, image_id \in ImageIds, n \in RunCountArgs :
          RunInstances(is_admin, image_id, n[1], n[2])
    \/ \E is_admin \in BOOLEAN, ids \in IdLists, kwargs \in DescribeKwargs :
          DescribeInstances(is_admin, ids, kwargs)
    \/ \E ids \in IdLists : TerminateInstances(ids)
    \/ \E ids \in IdLists : RebootInstances(ids)

SpecInst == InstInit /\ [][InstNext]_vars

-----------------------------------------------------------------------------
(* Claims on the instance handlers, checked under SpecInst *)

\* the last request was a describe_instances that returned a reservation set
Described == inst_resp.op = "describe" /\ inst_resp.result.st = "returned"

\* the instances describe_instances enumerated, in order: the listed ones,
\* or those the compute manager lists for the keyword arguments
Enumerated ==
    IF inst_resp.ids # <<>>
    THEN [j \in 1..Len(inst_resp.ids) |->
            ComputeGet(instances, Ec2IdToId(inst_resp.ids[j]).val).val]
    ELSE ComputeGetAll(instances, inst_resp.kwargs)

\* the instance is an entry of some reservation of the response
Shown(instance) ==
    \E r \in 1..Len(inst_resp.result.val) :
        \E i \in 1..Len(inst_resp.result.val[r].instancesSet) :
            inst_resp.result.val[r].instancesSet[i].instanceId
                = <<"i", "-">> \o Base36Numeral(instance.id)

\* C14: for a non-privileged caller no reservation returned by
\* describe_instances, with or without an instance id list, holds an
\* instance of the VPN image; for a privileged caller they are included
C14_VpnHiddenFromNonAdmin ==
    Described
    => /\ ~inst_resp.is_admin
          => \A r \in 1..Len(inst_resp.result.val) :
                \A i \in 1..Len(inst_resp.result.val[r].instancesSet) :
                   inst_resp.result.val[r].instancesSet[i].imageId
                      # VpnImageId
       /\ \A k \in 1..Len(Enumerated) :
             (inst_resp.is_admin \/ Enumerated[k].image_id # VpnImageId)
             => Shown(Enumerated[k])

\* a non-privileged caller listed instances by id, an instance of the VPN
\* image among them, and got the others
C14_Witness ==
    /\ Described
    /\ ~inst_resp.is_admin
    /\ inst_resp.ids # <<>>
    /\ inst_resp.result.val # <<>>
    /\ \E k \in 1..Len(Enumerated) : Enumerated[k].image_id = VpnImageId

\* C15: every run_instances whose launch succeeds returns the one
\* reservation-level response of the reservation it produced, for every
\* caller and every image id: 'assert len(i) == 1' holds on every call
C15_RunReturnsItsReservation ==
    inst_resp.op = "run"
    => /\ inst_resp.result.st = "returned"
       /\ inst_resp.result.val.reservationId
             = instances[Len(instances)].reservation_id

\* what the code does: the assertion fails, after the launch, exactly when
\* a non-privileged caller launches the VPN image, whose instances
\* _format_instances skips for that caller
RunFailsForNonAdminVpn ==
    inst_resp.op = "run"
    => IF ~inst_resp.is_admin /\ inst_resp.kwargs.image_id = VpnImageId
       THEN /\ inst_resp.result = Raised("AssertionError")
            /\ instances[Len(instances)].image_id = VpnImageId
       ELSE /\ inst_resp.result.st = "returned"
            /\ inst_resp.result.val.reservationId
                  = instances[Len(instances)].reservation_id

\* the step is a run_instances: the only handler that adds instances
RunStep == Len(instances') > Len(instances)

\* the run_instances request carries neither max_count nor min_count
BothAbsent(kw) == kw.max_count = PyNone /\ kw.min_count = PyNone

\* run_instances asks the compute manager for max_count = 1 when max_count
\* is absent and for min_count = max_count when min_count is absent; with
\* both absent one instance is launched, in a reservation of its own
RunRequestsDefaults ==
    RunStep
    => LET kw == inst_resp'.kwargs
           c  == inst_resp'.calls[1].arg
       IN  /\ inst_resp'.calls[1].method = "create"
           /\ kw.max_count = PyNone => c.max_count = 1
           /\ kw.min_count = PyNone => c.min_count = c.max_count
           /\ BothAbsent(kw)
              => /\ Len(instances') = Len(instances) + 1
                 /\ SubSeq(instances', 1, Len(instances)) = instances
                 /\ \A k \in 1..Len(instances) :
                       instances[k].reservation_id
                          # instances'[Len(instances')].reservation_id

\* the step is an unfiltered describe_instances that follows a
\* run_instances without max_count and min_count
DescribeAfterDefaultRun ==
    /\ inst_resp.op = "run"
    /\ BothAbsent(inst_resp.kwargs)
    /\ inst_resp'.op = "describe"
    /\ inst_resp'.ids = <<>>
    /\ DOMAIN inst_resp'.kwargs = {}

\* the response holds exactly one reservation entry with the instance just
\* launched; the entry is the instance's reservation and holds that one
\* instance in its initial state; it is the only entry when the instance
\* is the only one
ShowsTheNewInstance ==
    /\ inst_resp'.result.st = "returned"
    /\ LET new == instances[Len(instances)]
           res == inst_resp'.result.val
           holders == {r \in 1..Len(res) :
                         \E i \in 1..Len(res[r].instancesSet) :
                            res[r].instancesSet[i].instanceId
                               = <<"i", "-">> \o Base36Numeral(new.id)}
       IN  /\ Cardinality(holders) = 1
           /\ \A r \in holders :
                 /\ res[r].reservationId = new.reservation_id
                 /\ Len(res[r].instancesSet) = 1
                 /\ res[r].instancesSet[1].instanceState = "scheduling"
           /\ Len(instances) = 1 => Len(res) = 1

\* C16 as stated: run_instances requests max_count = 1 when max_count is
\* absent and min_count = max_count when min_count is absent; with both
\* absent exactly one instance is launched in one reservation, and an
\* unfiltered describe_instances issued afterwards returns exactly one
\* reservation entry containing that instance with its initial state
C16_DefaultRunThenDescribe ==
    [][/\ RunRequestsDefaults
       /\ DescribeAfterDefaultRun => ShowsTheNewInstance]_vars

\* C16 as amended: the same, where the describe_instances is issued by a
\* privileged caller or the image launched is not the VPN image
C16_DefaultRunThenDescribeVisible ==
    [][/\ RunRequestsDefaults
       /\ (/\ DescribeAfterDefaultRun
           /\ \/ inst_resp'.is_admin
              \/ instances[Len(instances)].image_id # VpnImageId)
          => ShowsTheNewInstance]_vars

\* one instance was launched, of the VPN image, and an unfiltered
\* describe_instances of a privileged caller returned one reservation
C16_Witness ==
    /\ Described
    /\ inst_resp.is_admin
    /\ inst_resp.ids = <<>>
    /\ DOMAIN inst_resp.kwargs = {}
    /\ next_instance_id = 2
    /\ Len(instances) = 1
    /\ instances[1].image_id = VpnImageId
    /\ Len(inst_resp.result.val) = 1
    /\ Len(inst_resp.result.val[1].instancesSet) = 1

\* the enumerated instances of a reservation that the caller may see
VisibleOf(rid) ==
    SelectSeq(Enumerated,
              LAMBDA x : /\ x.reservation_id = rid
                         /\ (inst_resp.is_admin \/ x.image_id # VpnImageId))

\* where the enumeration first shows the caller an instance of rid
FirstSeen(rid) ==
    CHOOSE k \in 1..Len(Enumerated) :
        /\ Enumerated[k] = VisibleOf(rid)[1]
        /\ \A h \in 1..(k - 1) : Enumerated[h] # VisibleOf(rid)[1]

\* each reservation id is in one entry, and inside an entry the instances
\* are in enumeration order
GroupedInEnumerationOrder ==
    Described
    => LET res == inst_resp.result.val
       IN  /\ \A a, b \in 1..Len(res) :
                 a # b => res[a].reservationId # res[b].reservationId
           /\ \A r \in 1..Len(res) :
                 [i \in 1..Len(res[r].instancesSet) |->
                     res[r].instancesSet[i].instanceId]
                 = [i \in 1..Len(VisibleOf(res[r].reservationId)) |->
                     <<"i", "-">> \o Base36Numeral(
                         VisibleOf(res[r].reservationId)[i].id)]

\* C17: the reservation list of describe_instances is ordered by the first
\* appearance of each reservation id in the enumerated instances, inside a
\* reservation the instances are in enumeration order, and each
\* reservation id is in exactly one entry
C17_ReservationsInFirstSeenOrder ==
    /\ GroupedInEnumerationOrder
    /\ Described
       => LET res == inst_resp.result.val
          IN  \A a, b \in 1..Len(res) :
                 a < b => FirstSeen(res[a].reservationId)
                             < FirstSeen(res[b].reservationId)

\* the last request was a terminate_instances or a reboot_instances
Batched == inst_resp.op \in {"terminate", "reboot"}

\* C18: terminate_instances and reboot_instances attempt every id of the
\* list independently: a failure on one element, in decoding or in the
\* compute manager, neither undoes the elements already processed nor
\* keeps the remaining elements from being attempted
C18_EveryElementAttempted ==
    Batched
    => /\ \A j \in 1..Len(inst_resp.ids) :
             Ec2IdToId(inst_resp.ids[j]).st = "returned"
             => \E c \in 1..Len(inst_resp.calls) :
                   inst_resp.calls[c].arg = Ec2IdToId(inst_resp.ids[j]).val
       /\ inst_resp.op = "terminate"
          => \A c \in 1..Len(inst_resp.calls) :
                \A k \in 1..Len(instances) :
                   instances[k].id # inst_resp.calls[c].arg

\* what the code does: the ids are handled in list order up to the first
\* failure, which ends the call; the elements handled before it stay
\* handled and the elements after it are never attempted
BatchStopsAtFirstFailure ==
    Batched
    => /\ Len(inst_resp.calls) <= Len(inst_resp.ids)
       /\ \A c \in 1..Len(inst_resp.calls) :
             /\ inst_resp.calls[c].arg = Ec2IdToId(inst_resp.ids[c]).val
             /\ inst_resp.calls[c].method
                   = IF inst_resp.op = "terminate" THEN "delete" ELSE "reboot"
       /\ inst_resp.result.st = "returned"
          => Len(inst_resp.calls) = Len(inst_resp.ids)
       /\ inst_resp.op = "terminate"
          => \A c \in 1..Len(inst_resp.calls) :
                \A k \in 1..Len(instances) :
                   instances[k].id # inst_resp.calls[c].arg

\* every id of the list decodes
AllDecode(ids) == \A j \in 1..Len(ids) : Ec2IdToId(ids[j]).st = "returned"

\* the compute manager holds an instance of that external id
InstanceExists(ec2_id) ==
    \E k \in 1..Len(instances) : instances[k].id = Ec2IdToId(ec2_id).val

\* C19: describe_instances with a non-empty id list resolves each id on
\* its own through the compute manager and fails as a whole with NotFound,
\* without a partial reservation set, if one of them does not exist;
\* without an id list, or with an empty one, it makes one listing call
\* with the other keyword arguments passed through unchanged
C19_DescribeResolvesEachOrFails ==
    inst_resp.op = "describe"
    => /\ (inst_resp.ids # <<>> /\ AllDecode(inst_resp.ids))
          => IF \A j \in 1..Len(inst_resp.ids) :
                   InstanceExists(inst_resp.ids[j])
             THEN /\ inst_resp.result.st = "returned"
                  /\ inst_resp.calls
                        = [j \in 1..Len(inst_resp.ids) |->
                             ComputeCall("get",
                                 Ec2IdToId(inst_resp.ids[j]).val)]
             ELSE /\ inst_resp.result = Raised("NotFound")
                  /\ \A c \in 1..Len(inst_resp.calls) :
                        inst_resp.calls[c].method = "get"
       /\ inst_resp.ids = <<>>
          => /\ inst_resp.result.st = "returned"
             /\ inst_resp.calls
                   = <<ComputeCall("get_all", inst_resp.kwargs)>>

\* describe_instances failed with NotFound on a list that names an
\* instance that exists and one that does not
C19_Witness ==
    /\ inst_resp.op = "describe"
    /\ inst_resp.result = Raised("NotFound")
    /\ Len(inst_resp.ids) = 2
    /\ \E j \in 1..2 : InstanceExists(inst_resp.ids[j])

-----------------------------------------------------------------------------
(* Validation before mutation in authorize_security_group_ingress *)

\* the rule equals the value set in the canonical sense: the group_id for
\* a group rule, cidr, ports and protocol for a CIDR rule
CanonicallyEqual(rule, values) ==
    IF "group_id" \in DOMAIN values
    THEN rule.group_id = values["group_id"]
    ELSE /\ rule.cidr = values["cidr"]
         /\ rule.from_port = values["from_port"]
         /\ rule.to_port = values["to_port"]
         /\ rule.protocol = values["protocol"]

\* C20: an authorize_security_group_ingress that fails validation, on a
\* malformed CIDR, an invalid protocol, a port out of range, a CIDR rule
\* without protocol or ports, or a duplicate rule, fails before any rule
\* mutation: no rule is created in any group and no refresh is triggered
C20_FailedAuthorizeWritesNothing ==
    [][LET a == StepArgs(1)
           c == RevokeRuleArgsToDict(groups, a)
       IN  (AuthorizeBegin(1, a) /\ TargetOf(a).st = "returned")
           => /\ (/\ c.st = "raised"
                  /\ c.val \in {"ValueError", "InvalidInputException"})
                 => Rejected(1, "authorize", a, c.val)
              /\ (c.st = "returned" /\ c.val.t = "none")
                 => Rejected(1, "authorize", a, "NotEnoughParameters")
              /\ (/\ c.st = "returned"
                  /\ c.val.t = "dict"
                  /\ \E k \in 1..Len(rules) :
                        /\ rules[k].parent_group_id = TargetOf(a).val.id
                        /\ CanonicallyEqual(rules[k], c.val.v))
                 => Rejected(1, "authorize", a, "RuleExists")]_vars

\* an authorization with a port out of range was refused while the target
\* group holds a rule
C20_Witness ==
    /\ resp.op = "authorize"
    /\ resp.result = "InvalidInputException"
    /\ resp.args.to_port = PyI(65536)
    /\ \E k \in 1..Len(rules) : rules[k].parent_group_id = resp.group

-----------------------------------------------------------------------------
(* Concurrent key-pair requests *)

\* two key-pair requests served at once: a request is suspended at its
\* datastore calls and at the key generation, where the other one can run
KeysConcNext ==
    \E w \in Workers :
        \/ \E u \in Users, n \in KeyNames : CreateKeyPairBegin(w, u, n)
        \/ KeyPairGenerate(w)
        \/ KeyPairCreate(w)
        \/ \E u \in Users, n \in KeyNames : DeleteKeyPair(w, u, n)

SpecKeysConc == KeysInit /\ [][KeysConcNext]_vars

\* C21: under every interleaving of concurrent create_key_pair and
\* delete_key_pair requests the store never holds two key pairs with the
\* same (user_id, name), and of concurrent create_key_pair requests for
\* one (user_id, name) at most one succeeds and returns key material
C21_KeyPairsUniqueUnderConcurrency ==
    \A k, h \in 1..Len(key_pairs) :
        (/\ key_pairs[k].user_id = key_pairs[h].user_id
         /\ key_pairs[k].name = key_pairs[h].name)
        => k = h

-----------------------------------------------------------------------------
(* Rules of a group under concurrent requests *)

\* two rules of one group that are equal in the canonical sense: group
\* rules of one source group, or CIDR rules with the same cidr, ports and
\* protocol
SameRuleTwice(r1, r2) ==
    /\ r1.id # r2.id
    /\ r1.parent_group_id = r2.parent_group_id
    /\ IF r1.group_id.t # "none" /\ r2.group_id.t # "none"
       THEN r1.group_id = r2.group_id
       ELSE /\ r1.group_id.t = "none"
            /\ r2.group_id.t = "none"
            /\ r1.cidr = r2.cidr
            /\ r1.from_port = r2.from_port
            /\ r1.to_port = r2.to_port
            /\ r1.protocol = r2.protocol

\* C22: in every reachable state, under every interleaving of concurrent
\* authorize_security_group_ingress and revoke_security_group_ingress
\* requests on one group included, no security group holds two canonically
\* equal rules
C22_NoCanonicallyEqualRules ==
    \A k, h \in 1..Len(rules) : ~SameRuleTwice(rules[k], rules[h])

-----------------------------------------------------------------------------
(* _trigger_refresh_security_group *)

MaxMembers == 3

\* hosts of the compute nodes
Hosts == {"h1", "h2"}

\* instance['host']: None until the instance is scheduled on a node
HostValues == {PyNone} \cup { [t |-> "str", v |-> h] : h \in Hosts }

\* FLAGS.compute_topic
ComputeTopic == "compute"

\* the groups a trigger is called with: security_group.id and
\* security_group.instances
MemberLists ==
    UNION { [1..n -> [host : HostValues]] : n \in 0..MaxMembers }

\* '%s' % x
PercentS(x) == IF x.t = "none" THEN "None" ELSE x.v

\* [instance['host'] for instance in security_group.instances], without
\* the test on None
NodesOf_Unfiltered(sg) ==
    { sg.instances[k].host : k \in 1..Len(sg.instances) }

\* set([instance['host'] for instance in security_group.instances
\*      if instance['host'] is not None])
NodesOf(sg) ==
    { sg.instances[k].host :
        k \in { h \in 1..Len(sg.instances) :
                  sg.instances[h].host.t # "none" } }

\* for node in nodes: the order in which a set is iterated is left to the
\* hash table
IterationOrders(S) ==
    { f \in [1..Cardinality(S) -> S] :
        \A i, j \in 1..Cardinality(S) : i # j => f[i] # f[j] }

\* the two arguments of rpc.cast after the context: the queue and the
\* message
CastTo(node, sg) ==
    [topic |-> ComputeTopic \o "." \o PercentS(node),
     msg   |-> [method |-> "refresh_security_group",
                args   |-> [security_group_id |-> sg.id]]]

TriggerRefreshSecurityGroup ==
    /\ \E order \in IterationOrders(NodesOf(security_group)) :
           rpc_casts' = [k \in 1..Len(order) |->
                            CastTo(order[k], security_group)]
    /\ UNCHANGED security_group
    /\ UNCHANGED nonRefreshVars

\* another group is affected: the casts of the trigger before are gone
NextGroup ==
    /\ rpc_casts # <<>>
    /\ \E id \in 1..2, members \in MemberLists :
           security_group' = [id |-> id, instances |-> members]
    /\ rpc_casts' = <<>>
    /\ UNCHANGED nonRefreshVars

RefreshInit ==
    /\ ec_pc = "idle"
    /\ ec_arg = 0
    /\ instance_id = 0
    /\ digits = <<>>
    /\ ec_hist = <<>>
    /\ cn_args = <<>>
    /\ cn_out = [st |-> "new"]
    /\ groups = {}
    /\ rules = <<>>
    /\ next_rule_id = 1
    /\ inflight = <<>>
    /\ resp = [op |-> "none"]
    /\ casts = <<>>
    /\ key_pairs = <<>>
    /\ keygen_calls = 0
    /\ kp_inflight = <<>>
    /\ kp_resp = [op |-> "none"]
    /\ instances = <<>>
    /\ next_instance_id = 1
    /\ inst_resp = [op |-> "none"]
    /\ \E id \in 1..2, members \in MemberLists :
           security_group = [id |-> id, instances |-> members]
    /\ rpc_casts = <<>>
    /\ flag_dict = <<>>
    /\ dirty = <<>>
    /\ is_dirty = <<>>
    /\ was_already_parsed = FALSE
    /\ stored_argv = <<>>
    /\ flags_resp = [op |-> "none"]
    /\ upd_resp = [op |-> "none"]
    /\ volumes = <<>>
    /\ vol_resp = [op |-> "none"]
    /\ images = <<>>
    /\ img_resp = [op |-> "none"]

RefreshNext ==
    \/ TriggerRefreshSecurityGroup
    \/ NextGroup

SpecRefresh == RefreshInit /\ [][RefreshNext]_vars

\* the messages of a trigger that are addressed to the queue of host h
CastsTo(cs, h) ==
    { k \in 1..Len(cs) : cs[k].topic = ComputeTopic \o "." \o h }

\* some member instance of the group runs on host h
HasMemberOn(sg, h) ==
    \E k \in 1..Len(sg.instances) :
        /\ sg.instances[k].host.t = "str"
        /\ sg.instances[k].host.v = h

\* C23: a trigger sends exactly one refresh_security_group message that
\* carries the group's id to '<compute_topic>.<host>' for each distinct
\* non-null host among the group's member instances: no host gets two, an
\* instance without a host produces none, and no other queue is addressed
C23_OneCastPerDistinctHost ==
    [][TriggerRefreshSecurityGroup =>
        /\ \A h \in Hosts :
               Cardinality(CastsTo(rpc_casts', h)) =
                   IF HasMemberOn(security_group, h) THEN 1 ELSE 0
        /\ \A k \in 1..Len(rpc_casts') :
               /\ \E h \in Hosts : k \in CastsTo(rpc_casts', h)
               /\ rpc_casts'[k].msg.method = "refresh_security_group"
               /\ rpc_casts'[k].msg.args.security_group_id =
                      security_group.id]_vars

\* a group with two members on one host and one member without a host
\* has been refreshed with a single message
C23_Witness ==
    /\ Len(security_group.instances) = 3
    /\ security_group.instances[1].host = security_group.instances[2].host
    /\ security_group.instances[1].host.t = "str"
    /\ security_group.instances[3].host.t = "none"
    /\ Len(rpc_casts) = 1

-----------------------------------------------------------------------------
(* describe_security_groups and _format_security_group *)

\* the entry of g['ipPermissions'] that lists the source group and the
\* cidr of every rule
FormatRule_Both(gs, rule) ==
    [ipProtocol |-> rule.protocol, fromPort |-> rule.from_port,
     toPort |-> rule.to_port,
     groups |-> IF Truthy(rule.group_id)
                THEN LET source_group ==
                             CHOOSE g \in gs : g.id = rule.group_id.v
                     IN  <<[groupName |-> source_group.name,
                            userId |-> source_group.project_id]>>
                ELSE <<>>,
     ipRanges |-> <<[cidrIp |-> rule.cidr]>>]

\* the body of the loop of _format_security_group: the entry r of one rule
FormatRule(gs, rule) ==
    [ipProtocol |-> rule.protocol, fromPort |-> rule.from_port,
     toPort |-> rule.to_port,
     groups |-> IF Truthy(rule.group_id)
                THEN LET source_group ==
                             CHOOSE g \in gs : g.id = rule.group_id.v
                     IN  <<[groupName |-> source_group.name,
                            userId |-> source_group.project_id]>>
                ELSE <<>>,
     ipRanges |-> IF Truthy(rule.group_id) THEN <<>>
                  ELSE <<[cidrIp |-> rule.cidr]>>]

\* _format_security_group(context, group)
FormatSecurityGroup(gs, rs, group) ==
    [groupName |-> group.name, ownerId |-> group.project_id,
     ipPermissions |-> [k \in 1..Len(RulesOf(rs, group.id)) |->
                           FormatRule(gs, RulesOf(rs, group.id)[k])]]

\* db.security_group_get_all / db.security_group_get_by_project: the rows
\* in the order of their keys
RECURSIVE GroupList(_)
GroupList(gs) ==
    IF gs = {} THEN <<>>
    ELSE LET g == CHOOSE x \in gs : \A y \in gs : x.id <= y.id
         IN  <<g>> \o GroupList(gs \ {g})

\* group_name of describe_security_groups: absent, or a list of names
DescribeGroupNames == {PyNone, [t |-> "list", v |-> <<N_web>>]}

\* describe_security_groups(context, group_name): the filter on group_name
\* reads g.name of the formatted entries, which are dicts
DescribeSecurityGroups(is_admin, group_name) ==
    /\ inflight[1] = Idle
    /\ LET gs == EnsureDefaultSecurityGroup(groups)
           listed == IF is_admin THEN GroupList(gs)
                     ELSE GroupList({g \in gs : g.project_id = ContextProject})
           formatted == [k \in 1..Len(listed) |->
                            FormatSecurityGroup(gs, rules, listed[k])]
           fails == group_name.t # "none" /\ formatted # <<>>
       IN  /\ resp' = [op |-> "describe", group |-> 0, kind |-> "none",
                       args |-> NoArgs,
                       result |-> IF fails THEN "AttributeError" ELSE "True",
                       rule |-> 0,
                       info |-> IF fails THEN <<>> ELSE formatted]
           /\ groups' = gs
    /\ casts' = <<>>
    /\ UNCHANGED <<rules, next_rule_id, inflight>>
    /\ UNCHANGED nonSGVars

\* requests that spell the protocol of one rule in two ways, a group rule
\* without ports, a group rule with ports, and one without any parameter
SpellingRequests ==
    { Args(N_web, PyS(S_tcp), PyI(22), PyI(22), PyNone, PyNone, PyNone),
      Args(N_web, PyS(S_TCP), PyI(22), PyI(22), PyNone, PyNone, PyNone),
      Args(N_web, PyNone, PyNone, PyNone, PyNone, PyS(N_db), PyNone),
      Args(N_db, PyS(S_tcp), PyI(22), PyI(80), PyNone, PyS(N_web), PyNone),
      Args(N_web, PyNone, PyNone, PyNone, PyNone, PyNone, PyNone) }

DescribeInit ==
    /\ ec_pc = "idle"
    /\ ec_arg = 0
    /\ instance_id = 0
    /\ digits = <<>>
    /\ ec_hist = <<>>
    /\ cn_args = <<>>
    /\ cn_out = [st |-> "new"]
    /\ groups = InitialGroups
    /\ rules = <<>>
    /\ next_rule_id = 1
    /\ inflight = [w \in Workers |-> Idle]
    /\ resp = [op |-> "none", group |-> 0, kind |-> "none", args |-> NoArgs,
               result |-> "none", rule |-> 0, info |-> <<>>]
    /\ casts = <<>>
    /\ key_pairs = <<>>
    /\ keygen_calls = 0
    /\ kp_inflight = <<>>
    /\ kp_resp = [op |-> "none"]
    /\ instances = <<>>
    /\ next_instance_id = 1
    /\ inst_resp = [op |-> "none"]
    /\ security_group = [id |-> 0, instances |-> <<>>]
    /\ rpc_casts = <<>>
    /\ flag_dict = <<>>
    /\ dirty = <<>>
    /\ is_dirty = <<>>
    /\ was_already_parsed = FALSE
    /\ stored_argv = <<>>
    /\ flags_resp = [op |-> "none"]
    /\ upd_resp = [op |-> "none"]
    /\ volumes = <<>>
    /\ vol_resp = [op |-> "none"]
    /\ images = <<>>
    /\ img_resp = [op |-> "none"]


\* authorize, revoke and describe requests served one at a time
DescribeNext ==
    \/ \E a \in SpellingRequests : AuthorizeBegin(1, a)
    \/ AuthorizeCreate(1)
    \/ \E a \in SpellingRequests : RevokeBegin(1, a)
    \/ RevokeDestroy(1)
    \/ \E is_admin \in BOOLEAN, group_name \in DescribeGroupNames :
           DescribeSecurityGroups(is_admin, group_name)

SpecDescribe == DescribeInit /\ [][DescribeNext]_vars

\* the entry of a describe response for the group g
EntryOf(info, g) ==
    CHOOSE k \in 1..Len(info) :
        info[k].groupName = g.name /\ info[k].ownerId = g.project_id

\* the response lists the rules of g one to one, each with its source in
\* exactly one of groups and ipRanges
ListedOneToOne(info, g) ==
    /\ \E k \in 1..Len(info) :
           info[k].groupName = g.name /\ info[k].ownerId = g.project_id
    /\ LET perms == info[EntryOf(info, g)].ipPermissions
           rs    == RulesOf(rules, g.id)
       IN  /\ Len(perms) = Len(rs)
           /\ \A k \in 1..Len(rs) :
                  IF rs[k].group_id.t # "none"
                  THEN Len(perms[k].groups) = 1 /\ Len(perms[k].ipRanges) = 0
                  ELSE Len(perms[k].groups) = 0 /\ Len(perms[k].ipRanges) = 1

\* C24: every persisted rule has exactly one of cidr and group_id set, and
\* a describe response holds for each rule of a listed group exactly one
\* permission entry, which populates exactly one of ipRanges and groups
C24_ExactlyOneOfCidrAndGroup ==
    /\ \A k \in 1..Len(rules) :
           (rules[k].cidr.t # "none") # (rules[k].group_id.t # "none")
    /\ (resp.op = "describe" /\ resp.result = "True") =>
           \A g \in { x \in groups : x.project_id = ContextProject } :
               ListedOneToOne(resp.info, g)

\* a cidr rule and a group rule are stored and have been described
C24_Witness ==
    /\ resp.op = "describe"
    /\ resp.result = "True"
    /\ \E k, h \in 1..Len(rules) :
           rules[k].cidr.t # "none" /\ rules[h].group_id.t # "none"

-----------------------------------------------------------------------------
(* The spelling of the protocol *)

\* two CIDR rules of one group that differ at most in the letter case of
\* their protocol
SameButForCase(r1, r2) ==
    /\ r1.parent_group_id = r2.parent_group_id
    /\ r1.group_id.t = "none"
    /\ r2.group_id.t = "none"
    /\ r1.cidr = r2.cidr
    /\ r1.from_port = r2.from_port
    /\ r1.to_port = r2.to_port
    /\ r1.protocol.t = "str"
    /\ r2.protocol.t = "str"
    /\ StrUpper(r1.protocol.v) = StrUpper(r2.protocol.v)

\* the CIDR rule a request with protocol and ports asks for, were it
\* stored in group gid
AskedRule(gid, a) ==
    [parent_group_id |-> gid, group_id |-> PyNone,
     cidr |-> IF Truthy(a.cidr_ip) THEN a.cidr_ip ELSE PyS(Cidr_Any),
     from_port |-> a.from_port, to_port |-> a.to_port,
     protocol |-> a.ip_protocol]

\* C29: the protocol of a rule is compared in canonical form: a group
\* never holds two CIDR rules that differ only in the letter case of the
\* protocol, and a revoke that names a stored CIDR rule in another letter
\* case does not end with "no rule"
C29_ProtocolComparedInCanonicalForm ==
    /\ \A k, h \in 1..Len(rules) :
           SameButForCase(rules[k], rules[h]) => k = h
    /\ (/\ resp.op = "revoke"
        /\ resp.result = "NoRule"
        /\ resp.kind = "cidr"
        /\ resp.args.ip_protocol.t = "str")
       => \A k \in 1..Len(rules) :
              ~SameButForCase(rules[k], AskedRule(resp.group, resp.args))

-----------------------------------------------------------------------------
(* FlagValues of nova/flags.py *)

MaxReads == 2   \* reads of one flag in one behaviour

FlagNames == {"a", "b"}
DefaultValue == "d"
AssignedValues == {"z"}

\* an element of argv: the program name, or an option --opt=value
Prog == [opt |-> "", value |-> "nova-api"]
Opt(n, v) == [opt |-> n, value |-> v]

\* the command lines FLAGS is called with
Argvs ==
    { <<Prog>>, <<Prog, Opt("a", "x")>>, <<Prog, Opt("b", "y")>>,
      <<Prog, Opt("a", "x"), Opt("b", "y")>> }

\* gflags.DEFINE_string(name, default, help): the Flag object. late, argv,
\* reads and replays are history: whether FLAGS had been called when the
\* flag was defined and with which argv, and how often the flag was read
\* and taken through ParseNewFlags.
NewFlag(late, argv) ==
    [value |-> DefaultValue, late |-> late, argv |-> argv, reads |-> 0,
     replays |-> 0]

\* the option of argv that sets flag n last, 0 when there is none
LastOption(argv, n) ==
    IF \E k \in 2..Len(argv) : argv[k].opt = n
    THEN CHOOSE k \in 2..Len(argv) :
             /\ argv[k].opt = n
             /\ \A h \in (k + 1)..Len(argv) : argv[h].opt # n
    ELSE 0

\* gflags.FlagValues.__call__(self, argv): every option of a registered
\* flag is parsed into it; UnrecognizedFlagError is raised after that when
\* an option names no registered flag
GflagsCall(fd, argv) ==
    [fd |-> [n \in DOMAIN fd |->
                IF LastOption(argv, n) # 0
                THEN [fd[n] EXCEPT !.value = argv[LastOption(argv, n)].value]
                ELSE fd[n]],
     unrecognized |-> \E k \in 2..Len(argv) : argv[k].opt \notin DOMAIN fd]

\* ClearDirty: self.__dict__['__is_dirty'] = []; ds is __dirty
ClearDirty(ds) == [dirty |-> ds, is_dirty |-> << <<>> >>]

\* an IsDirty that never sees a dirty flag
IsDirty_Never(ds, name) == FALSE

\* IsDirty: name in self.__dict__['__dirty']
IsDirty(ds, name) == \E k \in 1..Len(ds) : ds[k] = name

\* ParseNewFlags: the flags after the stored command line has been parsed
\* by a FlagValues that holds the dirty flags, and their values have been
\* set on self
ParseNewFlags(fd, ds, argv) ==
    LET new_flags == [n \in { ds[k] : k \in 1..Len(ds) } |-> fd[n]]
        parsed    == GflagsCall(new_flags, argv).fd
    IN  [n \in DOMAIN fd |->
            IF n \in DOMAIN parsed
            THEN [fd[n] EXCEPT !.value = parsed[n].value,
                               !.replays = @ + 1]
            ELSE fd[n]]

FlagsResponse(op, name, result, first, replayed) ==
    [op |-> op, name |-> name, result |-> result, first |-> first,
     replayed |-> replayed]

\* FLAGS(argv)
Call(argv) ==
    /\ flag_dict' = GflagsCall(flag_dict, argv).fd
    /\ stored_argv' = argv
    /\ was_already_parsed' = TRUE
    /\ dirty' = ClearDirty(dirty).dirty
    /\ is_dirty' = ClearDirty(dirty).is_dirty
    /\ flags_resp' = FlagsResponse("call", "", Returned(SubSeq(argv, 1, 1)),
                                   FALSE, FALSE)
    /\ UNCHANGED nonFlagsVars

\* DEFINE_string(name, default, help): FLAGS[name] = flag; gflags raises
\* DuplicateFlagError for a name that is registered
SetItem(name) ==
    /\ IF name \in DOMAIN flag_dict
       THEN /\ flags_resp' = FlagsResponse("define", name,
                                 Raised("DuplicateFlagError"), FALSE, FALSE)
            /\ UNCHANGED <<flag_dict, dirty>>
       ELSE /\ flag_dict' = (name :> NewFlag(was_already_parsed, stored_argv))
                            @@ flag_dict
            /\ dirty' = IF was_already_parsed THEN Append(dirty, name)
                        ELSE dirty
            /\ flags_resp' = FlagsResponse("define", name, Returned("None"),
                                           FALSE, FALSE)
    /\ UNCHANGED <<is_dirty, was_already_parsed, stored_argv>>
    /\ UNCHANGED nonFlagsVars

\* what a read of flag name does to the object, by either access path
ReadFlag(op, name, missing) ==
    LET replay == IsDirty(dirty, name)
        fd     == IF replay THEN ParseNewFlags(flag_dict, dirty, stored_argv)
                  ELSE flag_dict
        cd     == IF replay THEN ClearDirty(dirty)
                  ELSE [dirty |-> dirty, is_dirty |-> is_dirty]
    IN  /\ dirty' = cd.dirty
        /\ is_dirty' = cd.is_dirty
        /\ IF name \in DOMAIN fd
           THEN /\ fd[name].reads < MaxReads
                /\ flag_dict' = [fd EXCEPT ![name].reads = @ + 1]
                /\ flags_resp' = FlagsResponse(op, name,
                                     Returned(fd[name].value),
                                     fd[name].reads = 0, replay)
           ELSE /\ flag_dict' = fd
                /\ flags_resp' = FlagsResponse(op, name, Raised(missing),
                                               FALSE, replay)
        /\ UNCHANGED <<was_already_parsed, stored_argv>>
        /\ UNCHANGED nonFlagsVars

\* FLAGS[name]: the Flag object, of which the response keeps the value
GetItem(name) == ReadFlag("getitem", name, "KeyError")

\* FLAGS.name, for values without a $ placeholder
GetAttr(name) == ReadFlag("getattr", name, "AttributeError")

\* FLAGS.name = value (gflags.FlagValues.__setattr__)
SetAttr(name, value) ==
    /\ name \in DOMAIN flag_dict
    /\ flag_dict' = [flag_dict EXCEPT ![name].value = value]
    /\ flags_resp' = FlagsResponse("setattr", name, Returned("None"),
                                   FALSE, FALSE)
    /\ UNCHANGED <<dirty, is_dirty, was_already_parsed, stored_argv>>
    /\ UNCHANGED nonFlagsVars

FlagsInit ==
    /\ ec_pc = "idle"
    /\ ec_arg = 0
    /\ instance_id = 0
    /\ digits = <<>>
    /\ ec_hist = <<>>
    /\ cn_args = <<>>
    /\ cn_out = [st |-> "new"]
    /\ groups = {}
    /\ rules = <<>>
    /\ next_rule_id = 1
    /\ inflight = <<>>
    /\ resp = [op |-> "none"]
    /\ casts = <<>>
    /\ key_pairs = <<>>
    /\ keygen_calls = 0
    /\ kp_inflight = <<>>
    /\ kp_resp = [op |-> "none"]
    /\ instances = <<>>
    /\ next_instance_id = 1
    /\ inst_resp = [op |-> "none"]
    /\ security_group = [id |-> 0, instances |-> <<>>]
    /\ rpc_casts = <<>>
    /\ flag_dict = <<>>
    /\ dirty = <<>>
    /\ is_dirty = <<>>
    /\ was_already_parsed = FALSE
    /\ stored_argv = <<>>
    /\ flags_resp = FlagsResponse("none", "", Returned(""), FALSE, FALSE)
    /\ upd_resp = [op |-> "none"]
    /\ volumes = <<>>
    /\ vol_resp = [op |-> "none"]
    /\ images = <<>>
    /\ img_resp = [op |-> "none"]


FlagsNext ==
    \/ \E argv \in Argvs : Call(argv)
    \/ \E name \in FlagNames : SetItem(name)
    \/ \E name \in FlagNames : GetItem(name)
    \/ \E name \in FlagNames : GetAttr(name)
    \/ \E name \in FlagNames, value \in AssignedValues : SetAttr(name, value)

SpecFlags == FlagsInit /\ [][FlagsNext]_vars

\* flag n was defined after FLAGS(argv), that argv is still the stored one
\* and holds an option for n, and n has not been read
UnreadLateFlag(n) ==
    /\ n \in DOMAIN flag_dict
    /\ flag_dict[n].late
    /\ flag_dict[n].reads = 0
    /\ flag_dict[n].argv = stored_argv
    /\ LastOption(stored_argv, n) # 0

\* C25: the command line of the first parse is kept and replayed: the
\* first read, by attribute or item access, of a flag defined after
\* FLAGS(argv) whose option is in that argv returns the value of the
\* command line, not the default; and a parse whose argv names an unknown
\* flag returns normally
C25_LateFlagReadsCommandLine ==
    [][/\ \A n \in FlagNames :
              ((GetAttr(n) \/ GetItem(n)) /\ UnreadLateFlag(n)) =>
                  flags_resp'.result =
                      Returned(stored_argv[LastOption(stored_argv, n)].value)
       /\ \A argv \in Argvs :
              Call(argv) => /\ flags_resp'.result.st = "returned"
                            /\ stored_argv' = argv]_vars

\* a flag defined after a parse that named it has been read for the first
\* time and came back with the value of the command line
C25_Witness ==
    /\ flags_resp.op \in {"getattr", "getitem"}
    /\ flags_resp.first
    /\ flags_resp.replayed
    /\ flags_resp.result = Returned("x")
    /\ flag_dict[flags_resp.name].late

\* C26: once FLAGS(argv) or ParseNewFlags has completed no flag is dirty,
\* so that a flag defined after the first parse is replayed at most once
C26_NothingDirtyAfterParse ==
    /\ (flags_resp.op = "call" \/ flags_resp.replayed) =>
           \A n \in FlagNames : ~IsDirty(dirty, n)
    /\ \A n \in DOMAIN flag_dict : flag_dict[n].replays <= 1

-----------------------------------------------------------------------------
(* update_instance and update_volume *)

\* updatable_fields
UpdatableFields == {"display_name", "display_description"}

\* keyword arguments of the update requests: the updatable fields and one
\* attribute that is not updatable, each absent or with one of two values
UpdateKeys == UpdatableFields \cup {"user_id"}
UpdateValues == {"v1", "v2"}
UpdateKwargs == UNION { [S -> UpdateValues] : S \in SUBSET UpdateKeys }

\* ids of the update requests
UpdateInstanceIds == {Ec2_1, Ec2_2, Ec2_Bad}
UpdateVolumeIds == {<<"v", "o", "l", "-", "1">>, <<"v", "o", "l", "-", "2">>}

\* changes = {}; for field in updatable_fields: if field in kwargs: ...
Changes(kwargs) ==
    [field \in UpdatableFields \cap DOMAIN kwargs |-> kwargs[field]]

\* a call of a manager's update, as the handler made it
ManagerUpdate(api, id, fields) == [api |-> api, id |-> id, fields |-> fields]

UpdateResponse(op, id, kwargs, calls, result) ==
    [op |-> op, id |-> id, kwargs |-> kwargs, calls |-> calls,
     result |-> result]

\* update_instance(context, ec2_id, **kwargs)
UpdateInstance(ec2_id, kwargs) ==
    /\ upd_resp' =
         IF DOMAIN Changes(kwargs) = {}
         THEN UpdateResponse("update_instance", ec2_id, kwargs, <<>>,
                             Returned("True"))
         ELSE LET decoded == Ec2IdToId(ec2_id)
              IN  IF decoded.st = "raised"
                  THEN UpdateResponse("update_instance", ec2_id, kwargs,
                                      <<>>, decoded)
                  ELSE UpdateResponse("update_instance", ec2_id, kwargs,
                           <<ManagerUpdate("compute", decoded.val, kwargs)>>,
                           Returned("True"))
    /\ UNCHANGED nonUpdVars

\* update_volume(context, volume_id, **kwargs)
UpdateVolume(volume_id, kwargs) ==
    /\ upd_resp' =
         IF DOMAIN Changes(kwargs) = {}
         THEN UpdateResponse("update_volume", volume_id, kwargs, <<>>,
                             Returned("True"))
         ELSE UpdateResponse("update_volume", volume_id, kwargs,
                  <<ManagerUpdate("volume", volume_id, kwargs)>>,
                  Returned("True"))
    /\ UNCHANGED nonUpdVars

UpdateInit ==
    /\ ec_pc = "idle"
    /\ ec_arg = 0
    /\ instance_id = 0
    /\ digits = <<>>
    /\ ec_hist = <<>>
    /\ cn_args = <<>>
    /\ cn_out = [st |-> "new"]
    /\ groups = {}
    /\ rules = <<>>
    /\ next_rule_id = 1
    /\ inflight = <<>>
    /\ resp = [op |-> "none"]
    /\ casts = <<>>
    /\ key_pairs = <<>>
    /\ keygen_calls = 0
    /\ kp_inflight = <<>>
    /\ kp_resp = [op |-> "none"]
    /\ instances = <<>>
    /\ next_instance_id = 1
    /\ inst_resp = [op |-> "none"]
    /\ security_group = [id |-> 0, instances |-> <<>>]
    /\ rpc_casts = <<>>
    /\ flag_dict = <<>>
    /\ dirty = <<>>
    /\ is_dirty = <<>>
    /\ was_already_parsed = FALSE
    /\ stored_argv = <<>>
    /\ flags_resp = [op |-> "none"]
    /\ upd_resp = UpdateResponse("none", <<>>, NoKwargs, <<>>,
                               Returned("None"))
    /\ volumes = <<>>
    /\ vol_resp = [op |-> "none"]
    /\ images = <<>>
    /\ img_resp = [op |-> "none"]


UpdateNext ==
    \/ \E ec2_id \in UpdateInstanceIds, kwargs \in UpdateKwargs :
           UpdateInstance(ec2_id, kwargs)
    \/ \E volume_id \in UpdateVolumeIds, kwargs \in UpdateKwargs :
           UpdateVolume(volume_id, kwargs)

SpecUpdate == UpdateInit /\ [][UpdateNext]_vars

\* C27: update_instance and update_volume hand to the manager only the
\* updatable fields display_name and display_description present in the
\* request, never another keyword argument, and issue no update (and
\* return True) when neither updatable field is present
C27_OnlyUpdatableFieldsForwarded ==
    /\ \A k \in 1..Len(upd_resp.calls) :
           /\ DOMAIN upd_resp.calls[k].fields \subseteq UpdatableFields
           /\ \A field \in DOMAIN upd_resp.calls[k].fields :
                  /\ field \in DOMAIN upd_resp.kwargs
                  /\ upd_resp.calls[k].fields[field] = upd_resp.kwargs[field]
    /\ (upd_resp.op # "none"
        /\ UpdatableFields \cap DOMAIN upd_resp.kwargs = {})
       => /\ upd_resp.calls = <<>>
          /\ upd_resp.result = Returned("True")

-----------------------------------------------------------------------------
(* modify_image_attribute *)

\* the images of the image service
RegisteredImages == {"ami-1", "ami-2"}

\* arguments of the requests
Attributes == {"launchPermission", "kernel"}
OperationTypes == {"add", "remove", "set"}
UserGroups ==
    { <<>>, <<"all">>, <<"dev">>, <<"all", "dev">>, <<"dev", "all">>,
      <<"dev", "ops">> }
ImageKwargs == {NoKwargs} \cup { "user_group" :> ug : ug \in UserGroups }

\* image_service.modify(context, image_id, operation_type): 'add' makes
\* the image public, 'remove' makes it private
ImageModify(imgs, image_id, operation_type) ==
    [imgs EXCEPT ![image_id] = (operation_type = "add")]

\* a call of the image service, as the handler made it
ImageCall(image_id, operation_type) ==
    [method |-> "modify", image_id |-> image_id,
     operation_type |-> operation_type]

ImageResponse(op, image_id, attribute, operation_type, kwargs, calls, out) ==
    [op |-> op, image_id |-> image_id, attribute |-> attribute,
     operation_type |-> operation_type, kwargs |-> kwargs, calls |-> calls,
     result |-> out]

\* if len(kwargs['user_group']) != 1 and kwargs['user_group'][0] != 'all':
\*     raise exception.ApiError(...)
\* the second operand is evaluated when the first is true
UserGroupCheck(user_group) ==
    IF Len(user_group) # 1
    THEN IF user_group = <<>> THEN "IndexError"
         ELSE IF user_group[1] # "all" THEN "ApiError"
         ELSE "pass"
    ELSE "pass"

\* the outcome of modify_image_attribute before the image service is
\* called: the exception raised, or "pass"
ModifyChecks(attribute, operation_type, kwargs) ==
    IF attribute # "launchPermission" THEN "ApiError"
    ELSE IF "user_group" \notin DOMAIN kwargs THEN "ApiError"
    ELSE IF UserGroupCheck(kwargs["user_group"]) # "pass"
    THEN UserGroupCheck(kwargs["user_group"])
    ELSE IF operation_type \notin {"add", "remove"} THEN "ApiError"
    ELSE "pass"

\* modify_image_attribute(context, image_id, attribute, operation_type,
\*                        **kwargs)
ModifyImageAttribute(image_id, attribute, operation_type, kwargs) ==
    /\ LET checked == ModifyChecks(attribute, operation_type, kwargs)
       IN  IF checked # "pass"
           THEN /\ img_resp' = ImageResponse("modify", image_id, attribute,
                                   operation_type, kwargs, <<>>,
                                   Raised(checked))
                /\ UNCHANGED images
           ELSE /\ images' = ImageModify(images, image_id, operation_type)
                /\ img_resp' = ImageResponse("modify", image_id, attribute,
                                   operation_type, kwargs,
                                   <<ImageCall(image_id, operation_type)>>,
                                   Returned("modified"))
    /\ UNCHANGED nonImgVars

ImageInit ==
    /\ ec_pc = "idle"
    /\ ec_arg = 0
    /\ instance_id = 0
    /\ digits = <<>>
    /\ ec_hist = <<>>
    /\ cn_args = <<>>
    /\ cn_out = [st |-> "new"]
    /\ groups = {}
    /\ rules = <<>>
    /\ next_rule_id = 1
    /\ inflight = <<>>
    /\ resp = [op |-> "none"]
    /\ casts = <<>>
    /\ key_pairs = <<>>
    /\ keygen_calls = 0
    /\ kp_inflight = <<>>
    /\ kp_resp = [op |-> "none"]
    /\ instances = <<>>
    /\ next_instance_id = 1
    /\ inst_resp = [op |-> "none"]
    /\ security_group = [id |-> 0, instances |-> <<>>]
    /\ rpc_casts = <<>>
    /\ flag_dict = <<>>
    /\ dirty = <<>>
    /\ is_dirty = <<>>
    /\ was_already_parsed = FALSE
    /\ stored_argv = <<>>
    /\ flags_resp = [op |-> "none"]
    /\ upd_resp = [op |-> "none"]
    /\ volumes = <<>>
    /\ vol_resp = [op |-> "none"]
    /\ images = [image_id \in RegisteredImages |-> FALSE]
    /\ img_resp = ImageResponse("none", "", "", "", NoKwargs, <<>>,
                              Returned("None"))


ImageNext ==
    \E image_id \in RegisteredImages, attribute \in Attributes,
       operation_type \in OperationTypes, kwargs \in ImageKwargs :
        ModifyImageAttribute(image_id, attribute, operation_type, kwargs)

SpecImage == ImageInit /\ [][ImageNext]_vars

\* C28: modify_image_attribute reaches the image service only when
\* attribute is 'launchPermission', operation_type is 'add' or 'remove'
\* and user_group is exactly ['all']; with every other user_group it fails
\* with an ApiError and the image is not modified
C28_OnlyGroupAllReachesImageService ==
    /\ img_resp.calls # <<>> =>
           /\ img_resp.attribute = "launchPermission"
           /\ img_resp.operation_type \in {"add", "remove"}
           /\ "user_group" \in DOMAIN img_resp.kwargs
           /\ img_resp.kwargs["user_group"] = <<"all">>
    /\ (/\ img_resp.op = "modify"
        /\ "user_group" \in DOMAIN img_resp.kwargs
        /\ img_resp.kwargs["user_group"] # <<"all">>)
       => /\ img_resp.result = Raised("ApiError")
          /\ img_resp.calls = <<>>

-----------------------------------------------------------------------------
(* create_volume, describe_volumes and _format_volume *)

MaxVolumes == 2   \* volumes created in one behaviour

\* arguments of create_volume: size, and display_name and
\* display_description in **kwargs
VolumeSizes == {1, 2}
VolumeKwargs ==
    UNION { [S -> {"v1"}] :
              S \in SUBSET {"display_name", "display_description"} }

\* kwargs.get(key)
KwargsGet(kwargs, key) ==
    IF key \in DOMAIN kwargs THEN [t |-> "str", v |-> kwargs[key]]
    ELSE PyNone

\* volume_api.create(context, size, name, description): the row of the new
\* volume, not attached to any instance
VolumeCreate(id, size, name, description) ==
    [id |-> id, size |-> size, status |-> "creating", user_id |-> "u1",
     host |-> "None", mountpoint |-> "None", attach_status |-> "detached",
     display_name |-> name, display_description |-> description]

\* _format_volume(context, volume) for a volume without an instance: the
\* parts of the status string, and [{}] for the attachments of a volume
\* that is not attached
FormatVolume(is_admin, volume) ==
    [volumeId |-> volume.id,
     status |-> IF is_admin
                THEN <<volume.status, volume.user_id, volume.host, "None",
                       volume.mountpoint>>
                ELSE <<volume.status>>,
     size |-> volume.size,
     attachmentSet |-> IF volume.attach_status = "attached"
                       THEN <<[status |-> "attached",
                               device |-> volume.mountpoint]>>
                       ELSE << <<>> >>,
     display_name |-> volume.display_name,
     display_description |-> volume.display_description]

\* the name volume_ref in create_volume: the handler binds the new volume
\* to the local volume, and no local or global is called volume_ref
VolumeRef(volume) == Raised("NameError")

VolumeResponse(op, is_admin, created, result) ==
    [op |-> op, is_admin |-> is_admin, created |-> created,
     result |-> result]

\* create_volume(context, size, **kwargs)
CreateVolume(is_admin, size, kwargs) ==
    /\ Len(volumes) < MaxVolumes
    /\ LET volume == VolumeCreate(Len(volumes) + 1, size,
                                  KwargsGet(kwargs, "display_name"),
                                  KwargsGet(kwargs, "display_description"))
           ref    == VolumeRef(volume)
       IN  /\ volumes' = Append(volumes, volume)
           /\ vol_resp' = VolumeResponse("create", is_admin, volume.id,
                             IF ref.st = "raised" THEN ref
                             ELSE Returned(<<FormatVolume(is_admin,
                                                          ref.val)>>))
    /\ UNCHANGED nonVolVars

\* volume_id of describe_volumes: absent, or a list of ids
DescribeVolumeIds == {PyNone, [t |-> "list", v |-> {1}]}

\* describe_volumes(context, volume_id, **kwargs)
DescribeVolumes(is_admin, volume_id) ==
    /\ LET listed == SelectSeq(volumes,
                         LAMBDA v : volume_id.t = "none" \/ v.id \in volume_id.v)
       IN  vol_resp' = VolumeResponse("describe", is_admin, 0,
                           Returned([k \in 1..Len(listed) |->
                                        FormatVolume(is_admin, listed[k])]))
    /\ UNCHANGED volumes
    /\ UNCHANGED nonVolVars

VolumeInit ==
    /\ ec_pc = "idle"
    /\ ec_arg = 0
    /\ instance_id = 0
    /\ digits = <<>>
    /\ ec_hist = <<>>
    /\ cn_args = <<>>
    /\ cn_out = [st |-> "new"]
    /\ groups = {}
    /\ rules = <<>>
    /\ next_rule_id = 1
    /\ inflight = <<>>
    /\ resp = [op |-> "none"]
    /\ casts = <<>>
    /\ key_pairs = <<>>
    /\ keygen_calls = 0
    /\ kp_inflight = <<>>
    /\ kp_resp = [op |-> "none"]
    /\ instances = <<>>
    /\ next_instance_id = 1
    /\ inst_resp = [op |-> "none"]
    /\ security_group = [id |-> 0, instances |-> <<>>]
    /\ rpc_casts = <<>>
    /\ flag_dict = <<>>
    /\ dirty = <<>>
    /\ is_dirty = <<>>
    /\ was_already_parsed = FALSE
    /\ stored_argv = <<>>
    /\ flags_resp = [op |-> "none"]
    /\ upd_resp = [op |-> "none"]
    /\ volumes = <<>>
    /\ vol_resp = VolumeResponse("none", FALSE, 0, Returned("None"))
    /\ images = <<>>
    /\ img_resp = [op |-> "none"]


VolumeNext ==
    \/ \E is_admin \in BOOLEAN, size \in VolumeSizes, kwargs \in VolumeKwargs :
           CreateVolume(is_admin, size, kwargs)
    \/ \E is_admin \in BOOLEAN, volume_id \in DescribeVolumeIds :
           DescribeVolumes(is_admin, volume_id)

SpecVolume == VolumeInit /\ [][VolumeNext]_vars

\* C30: whenever the volume manager has created the volume, create_volume
\* returns a volumeSet of exactly one entry, the formatted record of the
\* volume just created; it never fails after the creation
C30_CreateVolumeReturnsItsVolume ==
    (vol_resp.op = "create" /\ vol_resp.created # 0) =>
        /\ vol_resp.result.st = "returned"
        /\ Len(vol_resp.result.val) = 1
        /\ vol_resp.result.val[1] =
               FormatVolume(vol_resp.is_admin, volumes[vol_resp.created])

=============================================================================
